---- MODULE Spec2Model ----
(***************************************************************************)
(* Saddy response cache: the in-memory backend (pkg/cache/memory_cache.go) *)
(* and the file backend (pkg/cache/cache.go), as called through the        *)
(* Storage interface by the proxy and the admin API.                       *)
(*                                                                         *)
(* Every handler is one action: each call runs to completion before the    *)
(* next one starts.  Time is an integer clock; time.Now() inside a handler *)
(* reads the variable now.  A Duration is a number of clock ticks.         *)
(***************************************************************************)
EXTENDS Integers, Sequences, FiniteSets, TLC

\* ------------------------------------------------------------------ bounds
MaxTime == 3        \* the clock runs from 1 to MaxTime
MaxTTL == 3         \* largest explicit ttl passed to a store
CfgMaxSize == 2     \* the configured max_size, in bytes
CfgDefaultTTL == 2  \* the configured default_ttl, in clock ticks
MaxFaults == 1      \* I/O operations that fail in one run
MaxRestarts == 1    \* times the process is started again on the directory
MaxThreads == 2     \* threads calling the cache at the same time

\* ------------------------------------------------------- program constants
ZeroTime == 0                 \* time.Time{}
FallbackTTL == 300            \* NewCache: defaultTTL <= 0

\* ------------------------------------------------------------------ inputs
Keys == {"a.com:GET:/x", "b.com:GET:/y", "c.com:GET:/z"}
Keys2 == {"a.com:GET:/x", "b.com:GET:/y"}
\* payloads of one byte, of max_size bytes and one byte longer than max_size
MaxLen == CfgMaxSize + 1
Values == {[i \in 1..n |-> 104] : n \in {1, CfgMaxSize, MaxLen}}
NilHeaders == [n \in {} |-> ""]
HeaderMaps ==
    { [n \in {"Content-Type", "X-Request-Id"} |->
          IF n = "Content-Type" THEN "text/plain" ELSE "r1"] }
StatusCodes == {404}
TTLs == {0, 1, MaxTTL}
DefaultTTLs == {CfgDefaultTTL}

VARIABLES
    storageType,     \* the backend NewCacheStorage built: "memory" or "file"
    maxSize,         \* Cache.maxSize / FileCache.maxSize
    cfgDefaultTTL,   \* FactoryConfig.DefaultTTL, as configured
    ttl,             \* Cache.ttl / FileCache.ttl, the default TTL
    persistent,      \* FileCache.persistent
    now,             \* the clock read by time.Now()
    memItems,        \* Cache.items: digest -> CacheItem
    memCurrentSize,  \* Cache.currentSize
    fcItems,         \* FileCache.items: digest -> FileCacheItem
    fcCurrentSize,   \* FileCache.currentSize
    indexFile,       \* <cacheDir>/index.json
    dataDir,         \* <cacheDir>/data: file name -> bytes
    faults,          \* I/O operations that have failed so far
    restarts,        \* times the process has been started again
    last,            \* the call that just completed, with its result
    stored,          \* per key: the last store, until the key is
                     \* stored again, deleted, cleared or evicted
    mutex,           \* Cache.mutex: the writer and the readers holding it
    pc,              \* per thread and for the sweep goroutine: where it is
    frame,           \* per thread: the arguments and locals of its call
    stopChan,        \* Cache.stopChan: "open" or "closed"
    tickerC,         \* a tick is waiting in ticker.C
    callerBuf        \* per thread: the byte slice it passes to a store

vars == <<storageType, maxSize, cfgDefaultTTL, ttl, persistent, now,
          memItems, memCurrentSize, fcItems, fcCurrentSize, indexFile,
          dataDir, faults, restarts, last, stored, mutex, pc, frame,
          stopChan, tickerC, callerBuf>>

\* the state of the threads, which the calls that run one at a time leave
\* alone
threads == <<mutex, pc, frame, stopChan, tickerC, callerBuf>>

\* ----------------------------------------------------------------- helpers
NoItem == [found |-> FALSE]
Some(i) == [found |-> TRUE, item |-> i]

Remove(f, d) == [x \in (DOMAIN f) \ {d} |-> f[x]]
Put(f, d, v) == [x \in (DOMAIN f) \cup {d} |-> IF x = d THEN v ELSE f[x]]
EmptyMap == [x \in {} |-> 0]

RECURSIVE SumSize(_)
SumSize(items) ==
    IF DOMAIN items = {} THEN 0
    ELSE LET d == CHOOSE x \in DOMAIN items : TRUE
         IN items[d].Size + SumSize(Remove(items, d))

\* a digest that is the same for every key
generateHash_constant(key) == <<"sha256", "">>

\* generateHash: hex(sha256(key)); distinct keys of the model have
\* distinct digests
generateHash(key) == <<"sha256", key>>

NoStore == [set |-> FALSE]
NoLast == [op |-> "new", key |-> "", value |-> <<>>, headers |-> NilHeaders,
           status |-> 0, ttl |-> 0, at |-> 0, ok |-> TRUE,
           result |-> NoItem, had |-> NoItem, sizeBefore |-> 0,
           sizeAfterReplace |-> 0, evicted |-> <<>>,
           prev |-> "", wasPersistent |-> FALSE, staleIndex |-> FALSE,
           cfg |-> [StorageType |-> "", MaxSize |-> <<>>, DefaultTTL |-> 0,
                    Persistent |-> FALSE],
           parsed |-> [err |-> FALSE, size |-> [n |-> 0, exp |-> 0],
                       called |-> FALSE],
           err |-> <<>>]

\* ------------------------------------------------------------------- proxy
\* the header names the switch of captureHeaders keeps; the proxy passes
\* SetWithHeaders a header map with these names only
AllowList == {"Content-Type", "Content-Encoding", "Content-Language",
              "Cache-Control", "Content-Disposition", "ETag"}

\* ---------------------------------------------------------- memory backend
\* the comparison letting the instant of expiry through
Cache_beforeExpiry_inclusive(item, t) == t <= item.ExpiresAt

\* time.Now().Before(item.ExpiresAt)
Cache_beforeExpiry(item, t) == t < item.ExpiresAt

\* the sweep taking the entry that expires at this instant too
Cache_sweepable_atExpiry(item, t) == t >= item.ExpiresAt

\* cleanup: now.After(item.ExpiresAt)
Cache_sweepable(item, t) == t > item.ExpiresAt

\* the scan ending on the first entry the map iteration meets
Cache_evictLRU_first(items) == DOMAIN items

\* the scan keeping the entry of greatest ExpiresAt
Cache_evictLRU_latest(items) ==
    {d \in DOMAIN items :
        \A e \in DOMAIN items : ~(items[e].ExpiresAt > items[d].ExpiresAt)}

\* evictLRU: the keys the scan can end on, the entries of least ExpiresAt
Cache_evictLRU(items) ==
    {d \in DOMAIN items :
        \A e \in DOMAIN items : ~(items[e].ExpiresAt < items[d].ExpiresAt)}

\* the loop not entered for a payload that cannot fit
RECURSIVE Cache_evictLoop_givesUp(_, _, _, _)
Cache_evictLoop_givesUp(items, cur, n, log) ==
    IF cur + n > maxSize /\ n <= maxSize /\ DOMAIN items # {}
    THEN UNION { Cache_evictLoop_givesUp(Remove(items, d),
                     cur - items[d].Size, n,
                     Append(log, [digest |-> d, item |-> items[d],
                                  rest |-> Remove(items, d),
                                  sizeBefore |-> cur]))
                 : d \in Cache_evictLRU(items) }
    ELSE {[items |-> items, currentSize |-> cur, log |-> log]}

\* the eviction loop of SetWithHeaders; the outcomes differ only in which
\* of several entries of equal ExpiresAt the map iteration meets first
RECURSIVE Cache_evictLoop(_, _, _, _)
Cache_evictLoop(items, cur, n, log) ==
    IF cur + n > maxSize /\ DOMAIN items # {}
    THEN UNION { Cache_evictLoop(Remove(items, d), cur - items[d].Size, n,
                     Append(log, [digest |-> d, item |-> items[d],
                                  rest |-> Remove(items, d),
                                  sizeBefore |-> cur]))
                 : d \in Cache_evictLRU(items) }
    ELSE {[items |-> items, currentSize |-> cur, log |-> log]}

\* expiresAt := time.Now().Add(ttl), or .Add(c.ttl) when ttl == 0
Cache_expiresAt(t) == IF t = 0 THEN now + ttl ELSE now + t

\* what Get returns in the current state
Cache_GetResult(key) ==
    LET h == generateHash(key) IN
    IF h \in DOMAIN memItems /\ Cache_beforeExpiry(memItems[h], now)
    THEN [found |-> TRUE, value |-> memItems[h].Value]
    ELSE [found |-> FALSE]

\* what GetItem returns in the current state
Cache_GetItemResult(key) ==
    LET h == generateHash(key) IN
    IF h \in DOMAIN memItems /\ Cache_beforeExpiry(memItems[h], now)
    THEN Some(memItems[h])
    ELSE NoItem

MemOnly == UNCHANGED <<storageType, maxSize, cfgDefaultTTL, ttl, persistent,
                       fcItems, fcCurrentSize, indexFile, dataDir, faults,
                       restarts, threads>>

\* SetWithHeaders running the eviction check on the size that still
\* counts the entry being replaced
Cache_SetWithHeaders_lateSubtract(key, value, headers, statusCode, t) ==
    /\ storageType = "memory"
    /\ LET h == generateHash(key)
           had == IF h \in DOMAIN memItems THEN Some(memItems[h]) ELSE NoItem
           items1 == Remove(memItems, h)
           cur1 == IF had.found THEN memCurrentSize - had.item.Size
                   ELSE memCurrentSize
           over == memCurrentSize - cur1
       IN \E o \in Cache_evictLoop(items1, memCurrentSize, Len(value), <<>>) :
            LET out == [o EXCEPT !.currentSize = o.currentSize - over] IN
            LET item == [Key |-> key, Value |-> value, Headers |-> headers,
                         StatusCode |-> statusCode,
                         ExpiresAt |-> Cache_expiresAt(t),
                         Size |-> Len(value)]
                gone == {out.log[i].item.Key : i \in 1..Len(out.log)}
            IN /\ memItems' = Put(out.items, h, item)
               /\ memCurrentSize' = out.currentSize + Len(value)
               /\ last' = [NoLast EXCEPT !.op = "SetWithHeaders",
                              !.key = key, !.value = value,
                              !.headers = headers, !.status = statusCode,
                              !.ttl = t, !.at = now, !.had = had,
                              !.sizeBefore = memCurrentSize,
                              !.sizeAfterReplace = cur1,
                              !.evicted = out.log]
               /\ stored' = [k \in Keys |->
                               IF k = key
                               THEN [set |-> TRUE, at |-> now, ttl |-> t,
                                     value |-> value]
                               ELSE IF k \in gone THEN NoStore
                               ELSE stored[k]]
    /\ UNCHANGED now
    /\ MemOnly

\* SetWithHeaders, from the Lock to the deferred Unlock
Cache_store(key, value, headers, statusCode, t) ==
    /\ storageType = "memory"
    /\ LET h == generateHash(key)
           had == IF h \in DOMAIN memItems THEN Some(memItems[h]) ELSE NoItem
           items1 == Remove(memItems, h)
           cur1 == IF had.found THEN memCurrentSize - had.item.Size
                   ELSE memCurrentSize
       IN \E out \in Cache_evictLoop(items1, cur1, Len(value), <<>>) :
            LET item == [Key |-> key, Value |-> value, Headers |-> headers,
                         StatusCode |-> statusCode,
                         ExpiresAt |-> Cache_expiresAt(t),
                         Size |-> Len(value)]
                gone == {out.log[i].item.Key : i \in 1..Len(out.log)}
            IN /\ memItems' = Put(out.items, h, item)
               /\ memCurrentSize' = out.currentSize + Len(value)
               /\ last' = [NoLast EXCEPT !.op = "SetWithHeaders",
                              !.key = key, !.value = value,
                              !.headers = headers, !.status = statusCode,
                              !.ttl = t, !.at = now, !.had = had,
                              !.sizeBefore = memCurrentSize,
                              !.sizeAfterReplace = cur1,
                              !.evicted = out.log]
               /\ stored' = [k \in Keys |->
                               IF k = key
                               THEN [set |-> TRUE, at |-> now, ttl |-> t,
                                     value |-> value]
                               ELSE IF k \in gone THEN NoStore
                               ELSE stored[k]]
    /\ UNCHANGED now

Cache_SetWithHeaders(key, value, headers, statusCode, t) ==
    /\ Cache_store(key, value, headers, statusCode, t)
    /\ MemOnly

\* Set(key, value, ttl) is SetWithHeaders(key, value, nil, 200, ttl)
Cache_Set(key, value, t) ==
    /\ Cache_SetWithHeaders(key, value, NilHeaders, 200, t)

\* Get removing the expired entry it meets, the way GetItem does
Cache_Get_removesExpired(key) ==
    /\ storageType = "memory"
    /\ LET h == generateHash(key)
           had == IF h \in DOMAIN memItems THEN Some(memItems[h]) ELSE NoItem
           r == Cache_GetResult(key)
       IN /\ IF had.found /\ ~Cache_beforeExpiry(had.item, now)
             THEN /\ memItems' = Remove(memItems, h)
                  /\ memCurrentSize' = memCurrentSize - had.item.Size
             ELSE UNCHANGED <<memItems, memCurrentSize>>
          /\ last' = [NoLast EXCEPT !.op = "Get", !.key = key, !.at = now,
                        !.sizeBefore = memCurrentSize, !.had = had,
                        !.result = IF r.found
                                   THEN Some([Value |-> r.value]) ELSE NoItem]
    /\ UNCHANGED <<now, stored>>
    /\ MemOnly

Cache_Get(key) ==
    /\ storageType = "memory"
    /\ LET r == Cache_GetResult(key) IN
       last' = [NoLast EXCEPT !.op = "Get", !.key = key, !.at = now,
                  !.sizeBefore = memCurrentSize,
                  !.had = IF generateHash(key) \in DOMAIN memItems
                          THEN Some(memItems[generateHash(key)]) ELSE NoItem,
                  !.result = IF r.found
                             THEN Some([Value |-> r.value]) ELSE NoItem]
    /\ UNCHANGED <<now, memItems, memCurrentSize, stored>>
    /\ MemOnly

Cache_GetItem(key) ==
    /\ storageType = "memory"
    /\ LET h == generateHash(key)
           had == IF h \in DOMAIN memItems THEN Some(memItems[h]) ELSE NoItem
       IN /\ IF had.found /\ ~Cache_beforeExpiry(had.item, now)
             THEN /\ memItems' = Remove(memItems, h)
                  /\ memCurrentSize' = memCurrentSize - had.item.Size
             ELSE UNCHANGED <<memItems, memCurrentSize>>
          /\ last' = [NoLast EXCEPT !.op = "GetItem", !.key = key,
                        !.at = now, !.had = had,
                        !.sizeBefore = memCurrentSize,
                        !.result = Cache_GetItemResult(key)]
    /\ UNCHANGED <<now, stored>>
    /\ MemOnly

\* Delete leaving the size of the removed entry in currentSize
Cache_Delete_keepsSize(key) ==
    /\ storageType = "memory"
    /\ memItems' = Remove(memItems, generateHash(key))
    /\ last' = [NoLast EXCEPT !.op = "Delete", !.key = key, !.at = now,
                  !.sizeBefore = memCurrentSize]
    /\ stored' = [k \in Keys |-> IF k = key THEN NoStore ELSE stored[k]]
    /\ UNCHANGED <<now, memCurrentSize>>
    /\ MemOnly

Cache_Delete(key) ==
    /\ storageType = "memory"
    /\ LET h == generateHash(key)
           had == IF h \in DOMAIN memItems THEN Some(memItems[h]) ELSE NoItem
       IN /\ memItems' = Remove(memItems, h)
          /\ memCurrentSize' = IF had.found
                               THEN memCurrentSize - had.item.Size
                               ELSE memCurrentSize
          /\ last' = [NoLast EXCEPT !.op = "Delete", !.key = key,
                        !.at = now, !.had = had,
                        !.sizeBefore = memCurrentSize]
    /\ stored' = [k \in Keys |-> IF k = key THEN NoStore ELSE stored[k]]
    /\ UNCHANGED now
    /\ MemOnly

Cache_Clear ==
    /\ storageType = "memory"
    /\ memItems' = EmptyMap
    /\ memCurrentSize' = 0
    /\ last' = [NoLast EXCEPT !.op = "Clear", !.at = now,
                  !.sizeBefore = memCurrentSize]
    /\ stored' = [k \in Keys |-> NoStore]
    /\ UNCHANGED now
    /\ MemOnly

\* the sweep with the size of the removed entries left in currentSize
Cache_cleanup_keepsSize ==
    /\ storageType = "memory"
    /\ memItems' = [d \in {x \in DOMAIN memItems :
                              ~Cache_sweepable(memItems[x], now)}
                       |-> memItems[d]]
    /\ last' = [NoLast EXCEPT !.op = "cleanup", !.at = now,
                  !.sizeBefore = memCurrentSize]
    /\ UNCHANGED <<now, stored, memCurrentSize>>
    /\ MemOnly

\* one pass of the sweep started by startCleanup's ticker
Cache_cleanup ==
    /\ storageType = "memory"
    /\ LET dead == {d \in DOMAIN memItems : Cache_sweepable(memItems[d], now)}
           kept == [d \in (DOMAIN memItems) \ dead |-> memItems[d]]
       IN /\ memItems' = kept
          /\ memCurrentSize' = memCurrentSize
                 - SumSize([d \in dead |-> memItems[d]])
          /\ last' = [NoLast EXCEPT !.op = "cleanup", !.at = now,
                        !.sizeBefore = memCurrentSize]
    /\ UNCHANGED <<now, stored>>
    /\ MemOnly

\* ------------------------------------------------------------ file backend
\* fmt.Sprintf("%s.bin", hashKey)
DataFileName(h) == <<h, ".bin">>

\* json.MarshalIndent(fc.items): one member per digest, the fields under
\* their json names, a time as its RFC 3339 text
MarshalTime(t) == <<"rfc3339", t>>
UnmarshalTime(s) == s[2]
MarshalItem(it) ==
    [key |-> it.Key, headers |-> it.Headers, status_code |-> it.StatusCode,
     created_at |-> MarshalTime(it.CreatedAt),
     expires_at |-> MarshalTime(it.ExpiresAt),
     size |-> it.Size, data_file |-> it.DataFile]
\* the decoding that leaves StatusCode at its zero value
UnmarshalItem_noStatus(j) ==
    [Key |-> j.key, Headers |-> j.headers, StatusCode |-> 0,
     CreatedAt |-> UnmarshalTime(j.created_at),
     ExpiresAt |-> UnmarshalTime(j.expires_at),
     Size |-> j.size, DataFile |-> j.data_file]

UnmarshalItem(j) ==
    [Key |-> j.key, Headers |-> j.headers, StatusCode |-> j.status_code,
     CreatedAt |-> UnmarshalTime(j.created_at),
     ExpiresAt |-> UnmarshalTime(j.expires_at),
     Size |-> j.size, DataFile |-> j.data_file]
Marshal(items) == {<<d, MarshalItem(items[d])>> : d \in DOMAIN items}
Unmarshal(data) ==
    [d \in {m[1] : m \in data} |->
        UnmarshalItem((CHOOSE m \in data : m[1] = d)[2])]

NoIndex == [exists |-> FALSE, data |-> {}]

\* saveIndex: os.WriteFile(indexFile, data, 0600)
saveIndex(items) == [exists |-> TRUE, data |-> Marshal(items)]

\* !fc.persistent && !item.ExpiresAt.IsZero()
\*     && time.Now().After(item.ExpiresAt)
FileCache_expired(item, t) ==
    /\ ~persistent
    /\ item.ExpiresAt # ZeroTime
    /\ t > item.ExpiresAt

\* the scan ordering the entries by ExpiresAt, as the memory backend does
FileCache_evictOldest_byExpiry(items) ==
    {d \in DOMAIN items :
        \A e \in DOMAIN items : ~(items[e].ExpiresAt < items[d].ExpiresAt)}

\* evictOldest: the keys the scan can end on, the entries of least CreatedAt
FileCache_evictOldest(items) ==
    {d \in DOMAIN items :
        \A e \in DOMAIN items : ~(items[e].CreatedAt < items[d].CreatedAt)}

\* the eviction loop dropping the records and leaving their data files
RECURSIVE FileCache_evictLoop_keepsFiles(_, _, _, _, _)
FileCache_evictLoop_keepsFiles(items, cur, files, n, log) ==
    IF cur + n > maxSize /\ DOMAIN items # {}
    THEN UNION { FileCache_evictLoop_keepsFiles(Remove(items, d),
                     cur - items[d].Size, files, n,
                     Append(log, [digest |-> d, item |-> items[d],
                                  rest |-> Remove(items, d),
                                  sizeBefore |-> cur]))
                 : d \in FileCache_evictOldest(items) }
    ELSE {[items |-> items, currentSize |-> cur, files |-> files,
           log |-> log]}

\* the eviction loop of SetWithHeaders; every eviction removes the data file
RECURSIVE FileCache_evictLoop(_, _, _, _, _)
FileCache_evictLoop(items, cur, files, n, log) ==
    IF cur + n > maxSize /\ DOMAIN items # {}
    THEN UNION { FileCache_evictLoop(Remove(items, d), cur - items[d].Size,
                     Remove(files, items[d].DataFile), n,
                     Append(log, [digest |-> d, item |-> items[d],
                                  rest |-> Remove(items, d),
                                  sizeBefore |-> cur]))
                 : d \in FileCache_evictOldest(items) }
    ELSE {[items |-> items, currentSize |-> cur, files |-> files,
           log |-> log]}

\* the expiry computed from the ttl in persistent mode too
FileCache_expiresAt_timed(t) ==
    IF t = 0 THEN now + ttl ELSE now + t

\* expiresAt of a new entry: the zero time in persistent mode, else
\* time.Now().Add(ttl) with fc.ttl standing in for ttl == 0
FileCache_expiresAt(t) ==
    IF persistent THEN ZeroTime
    ELSE IF t = 0 THEN now + ttl ELSE now + t

\* os.ReadFile of an entry's data file; ok is FALSE when the read fails
ReadFile(name, ok) ==
    IF ok /\ name \in DOMAIN dataDir
    THEN [err |-> FALSE, data |-> dataDir[name]]
    ELSE [err |-> TRUE, data |-> <<>>]

\* GetItem handing back the metadata without the status code
FileCache_GetItemResult_noStatus(key, ok) ==
    LET h == generateHash(key) IN
    IF h \notin DOMAIN fcItems THEN NoItem
    ELSE LET it == fcItems[h]
             rd == ReadFile(it.DataFile, ok)
         IN IF FileCache_expired(it, now) \/ rd.err THEN NoItem
            ELSE Some([Key |-> it.Key, Value |-> rd.data,
                       Headers |-> it.Headers, StatusCode |-> 0,
                       ExpiresAt |-> it.ExpiresAt, Size |-> it.Size])

\* what GetItem returns in the current state; ok is FALSE when the read of
\* the data file fails
FileCache_GetItemResult(key, ok) ==
    LET h == generateHash(key) IN
    IF h \notin DOMAIN fcItems THEN NoItem
    ELSE LET it == fcItems[h]
             rd == ReadFile(it.DataFile, ok)
         IN IF FileCache_expired(it, now) \/ rd.err THEN NoItem
            ELSE Some([Key |-> it.Key, Value |-> rd.data,
                       Headers |-> it.Headers, StatusCode |-> it.StatusCode,
                       ExpiresAt |-> it.ExpiresAt, Size |-> it.Size])

FileOnly == UNCHANGED <<storageType, maxSize, cfgDefaultTTL, ttl,
                        persistent, memItems, memCurrentSize, restarts,
                        threads>>

\* w is what os.WriteFile did: -1 could not open the file, 0..Len(value)-1
\* wrote that many bytes and failed, Len(value) wrote the file
FileCache_SetWithHeaders(key, value, headers, statusCode, t, w) ==
    /\ storageType = "file"
    /\ w \in -1..Len(value)
    /\ w = Len(value) \/ faults < MaxFaults
    /\ faults' = IF w = Len(value) THEN faults ELSE faults + 1
    /\ LET h == generateHash(key)
           had == IF h \in DOMAIN fcItems THEN Some(fcItems[h]) ELSE NoItem
           items1 == Remove(fcItems, h)
           cur1 == IF had.found THEN fcCurrentSize - had.item.Size
                   ELSE fcCurrentSize
           files1 == IF had.found THEN Remove(dataDir, had.item.DataFile)
                     ELSE dataDir
       IN \E out \in FileCache_evictLoop(items1, cur1, files1,
                                         Len(value), <<>>) :
            LET name == DataFileName(h)
                item == [Key |-> key, Headers |-> headers,
                         StatusCode |-> statusCode, CreatedAt |-> now,
                         ExpiresAt |-> FileCache_expiresAt(t),
                         Size |-> Len(value), DataFile |-> name]
                gone == {out.log[i].item.Key : i \in 1..Len(out.log)}
                rec == [NoLast EXCEPT !.op = "SetWithHeaders",
                          !.key = key, !.value = value,
                          !.headers = headers, !.status = statusCode,
                          !.ttl = t, !.at = now, !.had = had,
                          !.sizeBefore = fcCurrentSize,
                          !.sizeAfterReplace = cur1,
                          !.evicted = out.log]
            IN IF w = Len(value)
               THEN /\ dataDir' = Put(out.files, name, value)
                    /\ fcItems' = Put(out.items, h, item)
                    /\ fcCurrentSize' = out.currentSize + Len(value)
                    /\ indexFile' = saveIndex(fcItems')
                    /\ last' = rec
                    /\ stored' = [k \in Keys |->
                                    IF k = key
                                    THEN [set |-> TRUE, at |-> now,
                                          ttl |-> t, value |-> value]
                                    ELSE IF k \in gone THEN NoStore
                                    ELSE stored[k]]
               ELSE /\ dataDir' = IF w < 0 THEN out.files
                                  ELSE Put(out.files, name,
                                           SubSeq(value, 1, w))
                    /\ fcItems' = out.items
                    /\ fcCurrentSize' = out.currentSize
                    /\ UNCHANGED indexFile
                    /\ last' = [rec EXCEPT !.ok = FALSE]
                    /\ stored' = [k \in Keys |->
                                    IF k = key \/ k \in gone THEN NoStore
                                    ELSE stored[k]]
    /\ UNCHANGED now
    /\ FileOnly

FileCache_Set(key, value, t, w) ==
    /\ FileCache_SetWithHeaders(key, value, NilHeaders, 200, t, w)

\* Delete dropping the record and leaving its data file behind
FileCache_remove_keepsFile(h) ==
    /\ UNCHANGED dataDir
    /\ fcCurrentSize' = fcCurrentSize - fcItems[h].Size
    /\ fcItems' = Remove(fcItems, h)
    /\ indexFile' = saveIndex(fcItems')

\* the body of Delete for a digest that has an entry
FileCache_remove(h) ==
    /\ dataDir' = Remove(dataDir, fcItems[h].DataFile)
    /\ fcCurrentSize' = fcCurrentSize - fcItems[h].Size
    /\ fcItems' = Remove(fcItems, h)
    /\ indexFile' = saveIndex(fcItems')

\* the read of GetItem is attempted for an entry that has not expired
FileCache_reads(key) ==
    LET h == generateHash(key) IN
    h \in DOMAIN fcItems /\ ~FileCache_expired(fcItems[h], now)

\* GetItem returning nil on a failed read without the call of Delete
FileCache_GetItem_keepsUnreadable(key, ok) ==
    /\ storageType = "file"
    /\ ok \/ (FileCache_reads(key) /\ faults < MaxFaults)
    /\ faults' = IF ok THEN faults ELSE faults + 1
    /\ LET h == generateHash(key)
           had == IF h \in DOMAIN fcItems THEN Some(fcItems[h]) ELSE NoItem
           res == FileCache_GetItemResult(key, ok)
       IN /\ IF had.found /\ FileCache_expired(had.item, now)
             THEN FileCache_remove(h)
             ELSE UNCHANGED <<dataDir, fcCurrentSize, fcItems, indexFile>>
          /\ last' = [NoLast EXCEPT !.op = "GetItem", !.key = key,
                        !.at = now, !.ok = ok, !.had = had,
                        !.sizeBefore = fcCurrentSize, !.result = res]
    /\ UNCHANGED <<now, stored>>
    /\ FileOnly

FileCache_GetItem(key, ok) ==
    /\ storageType = "file"
    /\ ok \/ (FileCache_reads(key) /\ faults < MaxFaults)
    /\ faults' = IF ok THEN faults ELSE faults + 1
    /\ LET h == generateHash(key)
           had == IF h \in DOMAIN fcItems THEN Some(fcItems[h]) ELSE NoItem
           res == FileCache_GetItemResult(key, ok)
       IN /\ IF had.found /\ ~res.found
             THEN FileCache_remove(h)
             ELSE UNCHANGED <<dataDir, fcCurrentSize, fcItems, indexFile>>
          /\ last' = [NoLast EXCEPT !.op = "GetItem", !.key = key,
                        !.at = now, !.ok = ok, !.had = had,
                        !.sizeBefore = fcCurrentSize, !.result = res]
    /\ UNCHANGED <<now, stored>>
    /\ FileOnly

\* Get is GetItem reduced to the payload
FileCache_Get(key, ok) ==
    /\ storageType = "file"
    /\ ok \/ (FileCache_reads(key) /\ faults < MaxFaults)
    /\ faults' = IF ok THEN faults ELSE faults + 1
    /\ LET h == generateHash(key)
           had == IF h \in DOMAIN fcItems THEN Some(fcItems[h]) ELSE NoItem
           res == FileCache_GetItemResult(key, ok)
       IN /\ IF had.found /\ ~res.found
             THEN FileCache_remove(h)
             ELSE UNCHANGED <<dataDir, fcCurrentSize, fcItems, indexFile>>
          /\ last' = [NoLast EXCEPT !.op = "Get", !.key = key,
                        !.at = now, !.ok = ok, !.had = had,
                        !.sizeBefore = fcCurrentSize,
                        !.result = IF res.found
                                   THEN Some([Value |-> res.item.Value])
                                   ELSE NoItem]
    /\ UNCHANGED <<now, stored>>
    /\ FileOnly

\* Delete rewriting the index whether or not the key has an entry
FileCache_Delete_alwaysSaves(key) ==
    /\ storageType = "file"
    /\ LET h == generateHash(key)
           had == IF h \in DOMAIN fcItems THEN Some(fcItems[h]) ELSE NoItem
       IN /\ IF had.found
             THEN FileCache_remove(h)
             ELSE /\ UNCHANGED <<dataDir, fcCurrentSize, fcItems>>
                  /\ indexFile' = saveIndex(fcItems)
          /\ last' = [NoLast EXCEPT !.op = "Delete", !.key = key,
                        !.at = now, !.had = had,
                        !.sizeBefore = fcCurrentSize]
    /\ stored' = [k \in Keys |-> IF k = key THEN NoStore ELSE stored[k]]
    /\ UNCHANGED <<now, faults>>
    /\ FileOnly

FileCache_Delete(key) ==
    /\ storageType = "file"
    /\ LET h == generateHash(key)
           had == IF h \in DOMAIN fcItems THEN Some(fcItems[h]) ELSE NoItem
       IN /\ IF had.found
             THEN FileCache_remove(h)
             ELSE UNCHANGED <<dataDir, fcCurrentSize, fcItems, indexFile>>
          /\ last' = [NoLast EXCEPT !.op = "Delete", !.key = key,
                        !.at = now, !.had = had,
                        !.sizeBefore = fcCurrentSize]
    /\ stored' = [k \in Keys |-> IF k = key THEN NoStore ELSE stored[k]]
    /\ UNCHANGED <<now, faults>>
    /\ FileOnly

\* Clear emptying the index and leaving the data files where they are
FileCache_Clear_keepsFiles ==
    /\ storageType = "file"
    /\ fcItems' = EmptyMap
    /\ fcCurrentSize' = 0
    /\ indexFile' = saveIndex(fcItems')
    /\ last' = [NoLast EXCEPT !.op = "Clear", !.at = now,
                  !.sizeBefore = fcCurrentSize]
    /\ stored' = [k \in Keys |-> NoStore]
    /\ UNCHANGED <<now, faults, dataDir>>
    /\ FileOnly

\* Clear removes every file of the data directory
FileCache_Clear ==
    /\ storageType = "file"
    /\ dataDir' = EmptyMap
    /\ fcItems' = EmptyMap
    /\ fcCurrentSize' = 0
    /\ indexFile' = saveIndex(fcItems')
    /\ last' = [NoLast EXCEPT !.op = "Clear", !.at = now,
                  !.sizeBefore = fcCurrentSize]
    /\ stored' = [k \in Keys |-> NoStore]
    /\ UNCHANGED <<now, faults>>
    /\ FileOnly

\* Stop returning without the final index rewrite
FileCache_Stop_noSave ==
    /\ storageType = "file"
    /\ last' = [NoLast EXCEPT !.op = "Stop", !.at = now,
                  !.sizeBefore = fcCurrentSize,
                  !.staleIndex = (indexFile.exists
                                  /\ indexFile # saveIndex(fcItems))]
    /\ UNCHANGED <<now, stored, dataDir, fcItems, fcCurrentSize, faults,
                   indexFile>>
    /\ FileOnly

FileCache_Stop ==
    /\ storageType = "file"
    /\ indexFile' = saveIndex(fcItems)
    /\ last' = [NoLast EXCEPT !.op = "Stop", !.at = now,
                  !.sizeBefore = fcCurrentSize,
                  !.staleIndex = (indexFile.exists
                                  /\ indexFile # saveIndex(fcItems))]
    /\ UNCHANGED <<now, stored, dataDir, fcItems, fcCurrentSize, faults>>
    /\ FileOnly

\* the test of the expiry made in persistent mode too
loadFromDisk_accepts_anyMode(j, p) ==
    /\ j.data_file \in DOMAIN dataDir
    /\ ~(UnmarshalTime(j.expires_at) # ZeroTime
            /\ now > UnmarshalTime(j.expires_at))

\* loadFromDisk: the records of the index file that the new instance keeps,
\* and the data files it leaves; p is the new instance's persistent flag
loadFromDisk_accepts(j, p) ==
    /\ j.data_file \in DOMAIN dataDir
    /\ ~(~p /\ UnmarshalTime(j.expires_at) # ZeroTime
            /\ now > UnmarshalTime(j.expires_at))

loadFromDisk_items(p) ==
    IF ~indexFile.exists THEN EmptyMap
    ELSE LET all == Unmarshal(indexFile.data)
         IN [d \in {x \in DOMAIN all :
                      loadFromDisk_accepts(MarshalItem(all[x]), p)}
                |-> all[d]]

loadFromDisk_files(p) ==
    IF ~indexFile.exists THEN dataDir
    ELSE LET all == Unmarshal(indexFile.data)
             dropped == {all[x].DataFile : x \in
                           {y \in DOMAIN all :
                              /\ all[y].DataFile \in DOMAIN dataDir
                              /\ ~loadFromDisk_accepts(MarshalItem(all[y]), p)}}
         IN [f \in (DOMAIN dataDir) \ dropped |-> dataDir[f]]

\* the process starts again on the same cache directory
NewFileCache(defaultTTL, p) ==
    /\ storageType = "file"
    /\ restarts < MaxRestarts
    /\ restarts' = restarts + 1
    /\ persistent' = p
    /\ cfgDefaultTTL' = defaultTTL
    /\ ttl' = defaultTTL
    /\ fcItems' = loadFromDisk_items(p)
    /\ fcCurrentSize' = SumSize(fcItems')
    /\ dataDir' = loadFromDisk_files(p)
    /\ last' = [NoLast EXCEPT !.op = "NewFileCache", !.at = now,
                  !.sizeBefore = fcCurrentSize, !.prev = last.op,
                  !.wasPersistent = persistent]
    /\ stored' = [k \in Keys |-> NoStore]
    /\ UNCHANGED <<storageType, maxSize, now, memItems, memCurrentSize,
                   indexFile, faults, threads>>

\* ------------------------------------------------------------------- clock
Tick ==
    /\ now < MaxTime
    /\ now' = now + 1
    /\ last' = [NoLast EXCEPT !.op = "Tick"]
    /\ UNCHANGED <<storageType, maxSize, cfgDefaultTTL, ttl, persistent,
                   memItems, memCurrentSize, fcItems, fcCurrentSize,
                   indexFile, dataDir, faults, restarts, stored, threads>>

\* ----------------------------------------------------------------- threads
Threads == 1..MaxThreads
Sweeper == 0
NoProc == -1
Procs == Threads \cup {Sweeper}

ValuesConc == {[i \in 1..n |-> 104] : n \in {1, CfgMaxSize}}
TTLsConc == {1}

NoFrame == [op |-> "", key |-> "", value |-> <<>>, headers |-> NilHeaders,
            status |-> 0, ttl |-> 0, at |-> 0, snapItems |-> EmptyMap,
            snapSize |-> 0, had |-> NoItem, result |-> NoItem,
            count |-> 0, sum |-> 0, size |-> 0, removed |-> NoItem,
            store |-> NoStore, iter |-> 0, itemsAtLoop |-> -1]

\* a thread's slice before it has allocated one: nil.  data is what the
\* backing array holds, key the key it was last stored under, shares the
\* digests of the entries whose Value has the same backing array
NoBuf == [data |-> <<>>, key |-> "", shares |-> {}]

\* nobody holds the lock, no call is running; NewCache has started the
\* sweep goroutine, NewFileCache starts none
InitThreads ==
    /\ mutex = [w |-> NoProc, r |-> {}]
    /\ pc = [p \in Procs |->
               IF p \in Threads THEN "idle"
               ELSE IF storageType = "memory" THEN "select" ELSE "done"]
    /\ frame = [p \in Procs |-> NoFrame]
    /\ stopChan = "open"
    /\ tickerC = FALSE
    /\ callerBuf = [p \in Threads |-> NoBuf]

\* the default TTL NewCache derives from the configured value
DefaultTTLRule(d) == IF d <= 0 THEN FallbackTTL ELSE d

\* ----------------------------------------------------------- specification
\* NewCacheStorage: the backend the configuration selects, on an empty
\* cache directory
Init ==
    /\ storageType \in {"memory", "file"}
    /\ maxSize = CfgMaxSize
    /\ cfgDefaultTTL \in DefaultTTLs
    /\ ttl = IF storageType = "memory" /\ cfgDefaultTTL <= 0
             THEN FallbackTTL ELSE cfgDefaultTTL
    /\ persistent \in (IF storageType = "file" THEN BOOLEAN ELSE {FALSE})
    /\ now = 1
    /\ memItems = EmptyMap
    /\ memCurrentSize = 0
    /\ fcItems = EmptyMap
    /\ fcCurrentSize = 0
    /\ indexFile = NoIndex
    /\ dataDir = EmptyMap
    /\ faults = 0
    /\ restarts = 0
    /\ last = NoLast
    /\ stored = [k \in Keys |-> NoStore]
    /\ InitThreads

\* calls that do not overlap, on two keys, every file operation succeeding
Next ==
    \/ \E k \in Keys2, v \in Values, h \in HeaderMaps, s \in StatusCodes,
          t \in TTLs : Cache_SetWithHeaders(k, v, h, s, t)
    \/ \E k \in Keys2, v \in Values : Cache_Set(k, v, 0)
    \/ \E k \in Keys2 : Cache_Get(k)
    \/ \E k \in Keys2 : Cache_GetItem(k)
    \/ \E k \in Keys2 : Cache_Delete(k)
    \/ Cache_Clear
    \/ Cache_cleanup
    \/ \E k \in Keys2, v \in Values, h \in HeaderMaps, s \in StatusCodes,
          t \in TTLs : FileCache_SetWithHeaders(k, v, h, s, t, Len(v))
    \/ \E k \in Keys2, v \in Values : FileCache_Set(k, v, 0, Len(v))
    \/ \E k \in Keys2 : FileCache_GetItem(k, TRUE)
    \/ \E k \in Keys2 : FileCache_Get(k, TRUE)
    \/ \E k \in Keys2 : FileCache_Delete(k)
    \/ FileCache_Clear
    \/ FileCache_Stop
    \/ Tick

Spec == Init /\ [][Next]_vars

\* three keys, so that an eviction has to choose among several entries
ValuesEvict == {[i \in 1..n |-> 104] : n \in {1, CfgMaxSize}}
TTLsEvict == {1, MaxTTL}

NextEvict ==
    \/ \E k \in Keys, v \in ValuesEvict, h \in HeaderMaps, s \in StatusCodes,
          t \in TTLsEvict : Cache_SetWithHeaders(k, v, h, s, t)
    \/ \E k \in Keys : Cache_GetItem(k)
    \/ \E k \in Keys, v \in ValuesEvict, h \in HeaderMaps, s \in StatusCodes,
          t \in TTLsEvict : FileCache_SetWithHeaders(k, v, h, s, t, Len(v))
    \/ \E k \in Keys : FileCache_GetItem(k, TRUE)
    \/ Tick

SpecEvict == Init /\ [][NextEvict]_vars

\* file operations that may fail and a process that may be started again on
\* the same directory, with another persistent flag
ValuesDisk == {[i \in 1..n |-> 104] : n \in {1, CfgMaxSize}}
TTLsDisk == {1}

NextDisk ==
    \/ \E k \in Keys2, v \in ValuesDisk, h \in HeaderMaps, s \in StatusCodes,
          t \in TTLsDisk : Cache_SetWithHeaders(k, v, h, s, t)
    \/ \E k \in Keys2 : Cache_GetItem(k)
    \/ \E k \in Keys2, v \in ValuesDisk, h \in HeaderMaps, s \in StatusCodes,
          t \in TTLsDisk, w \in -1..MaxLen :
            FileCache_SetWithHeaders(k, v, h, s, t, w)
    \/ \E k \in Keys2, ok \in BOOLEAN : FileCache_GetItem(k, ok)
    \/ \E k \in Keys2 : FileCache_Delete(k)
    \/ FileCache_Clear
    \/ FileCache_Stop
    \/ \E d \in DefaultTTLs, p \in BOOLEAN : NewFileCache(d, p)
    \/ Tick

SpecDisk == Init /\ [][NextDisk]_vars

\* the configurations with default_ttl left at 0, memory backend and file
\* backend with persistent mode off
ConfiguredTTLs == {0, CfgDefaultTTL}
TTLsDefault == {0, 1}

InitTTL ==
    /\ storageType \in {"memory", "file"}
    /\ maxSize = CfgMaxSize
    /\ cfgDefaultTTL \in ConfiguredTTLs
    /\ ttl = IF storageType = "memory" /\ cfgDefaultTTL <= 0
             THEN FallbackTTL ELSE cfgDefaultTTL
    /\ persistent = FALSE
    /\ now = 1
    /\ memItems = EmptyMap
    /\ memCurrentSize = 0
    /\ fcItems = EmptyMap
    /\ fcCurrentSize = 0
    /\ indexFile = NoIndex
    /\ dataDir = EmptyMap
    /\ faults = 0
    /\ restarts = 0
    /\ last = NoLast
    /\ stored = [k \in Keys |-> NoStore]
    /\ InitThreads

NextTTL ==
    \/ \E k \in Keys2, v \in ValuesDisk, h \in HeaderMaps, s \in StatusCodes,
          t \in TTLsDefault : Cache_SetWithHeaders(k, v, h, s, t)
    \/ \E k \in Keys2 : Cache_GetItem(k)
    \/ \E k \in Keys2, v \in ValuesDisk, h \in HeaderMaps, s \in StatusCodes,
          t \in TTLsDefault : FileCache_SetWithHeaders(k, v, h, s, t, Len(v))
    \/ \E k \in Keys2 : FileCache_GetItem(k, TRUE)
    \/ Tick

SpecTTL == InitTTL /\ [][NextTTL]_vars

\* ------------------------------------------- memory backend, several threads
\* The handlers of the memory backend statement by statement, run by
\* several threads next to the sweep goroutine of startCleanup.  A call
\* starts with the step that acquires c.mutex and ends with the step that
\* releases it (the deferred Unlock or RUnlock).
Alive == \A p \in Procs : pc[p] # "panicked"

\* sync.RWMutex
CanLock == mutex.w = NoProc /\ mutex.r = {}
CanRLock == mutex.w = NoProc
Lock(p) == [mutex EXCEPT !.w = p]
RLock(p) == [mutex EXCEPT !.r = @ \cup {p}]
Unlock(p) == [mutex EXCEPT !.w = NoProc]
RUnlock(p) == [mutex EXCEPT !.r = @ \ {p}]

ConcOnly == UNCHANGED <<storageType, maxSize, cfgDefaultTTL, ttl, persistent,
                        fcItems, fcCurrentSize, indexFile, dataDir, faults,
                        restarts, last, stored, now, callerBuf>>

\* a call of thread p starts: the frame of its arguments, with the map and
\* the counter as they are when the lock is acquired
Enter(p, label, f) ==
    /\ pc' = [pc EXCEPT ![p] = label]
    /\ frame' = [frame EXCEPT ![p] =
                    [f EXCEPT !.snapItems = memItems,
                              !.snapSize = memCurrentSize]]

Goto(p, label) == pc' = [pc EXCEPT ![p] = label]

\* the deferred unlock ran and the call returned
Return(p) ==
    /\ pc' = [pc EXCEPT ![p] = "idle"]
    /\ frame' = [frame EXCEPT ![p] = NoFrame]

\* --- SetWithHeaders
\* c.mutex.Lock()
Cache_SetWithHeaders_lock(p, key, value, headers, statusCode, t) ==
    /\ Alive /\ pc[p] = "idle" /\ CanLock
    /\ mutex' = Lock(p)
    /\ Enter(p, "Set_replace",
             [NoFrame EXCEPT !.op = "SetWithHeaders", !.key = key,
                !.value = value, !.headers = headers,
                !.status = statusCode, !.ttl = t])
    /\ UNCHANGED <<memItems, memCurrentSize, stopChan, tickerC>>
    /\ ConcOnly

\* remove the existing item if it exists
Cache_SetWithHeaders_replace(p) ==
    /\ Alive /\ pc[p] = "Set_replace"
    /\ LET h == generateHash(frame[p].key) IN
       IF h \in DOMAIN memItems
       THEN /\ memCurrentSize' = memCurrentSize - memItems[h].Size
            /\ memItems' = Remove(memItems, h)
       ELSE UNCHANGED <<memItems, memCurrentSize>>
    /\ Goto(p, "Set_evict")
    /\ UNCHANGED <<mutex, frame, stopChan, tickerC>>
    /\ ConcOnly

\* the eviction loop
Cache_SetWithHeaders_evict(p) ==
    /\ Alive /\ pc[p] = "Set_evict"
    /\ \E out \in Cache_evictLoop(memItems, memCurrentSize,
                                  Len(frame[p].value), <<>>) :
         /\ memItems' = out.items
         /\ memCurrentSize' = out.currentSize
    /\ Goto(p, "Set_insert")
    /\ UNCHANGED <<mutex, frame, stopChan, tickerC>>
    /\ ConcOnly

\* the item a store builds at time at
Cache_newItem(f, at) ==
    [Key |-> f.key, Value |-> f.value, Headers |-> f.headers,
     StatusCode |-> f.status,
     ExpiresAt |-> IF f.ttl = 0 THEN at + ttl ELSE at + f.ttl,
     Size |-> Len(f.value)]

\* c.items[hashKey] = item
Cache_SetWithHeaders_insert(p) ==
    /\ Alive /\ pc[p] = "Set_insert"
    /\ memItems' = Put(memItems, generateHash(frame[p].key),
                       Cache_newItem(frame[p], now))
    /\ frame' = [frame EXCEPT ![p].at = now]
    /\ Goto(p, "Set_size")
    /\ UNCHANGED <<mutex, memCurrentSize, stopChan, tickerC>>
    /\ ConcOnly

\* c.currentSize += int64(len(value))
Cache_SetWithHeaders_size(p) ==
    /\ Alive /\ pc[p] = "Set_size"
    /\ memCurrentSize' = memCurrentSize + Len(frame[p].value)
    /\ Goto(p, "Set_unlock")
    /\ UNCHANGED <<mutex, memItems, frame, stopChan, tickerC>>
    /\ ConcOnly

Cache_SetWithHeaders_unlock(p) ==
    /\ Alive /\ pc[p] = "Set_unlock"
    /\ mutex' = Unlock(p)
    /\ Return(p)
    /\ UNCHANGED <<memItems, memCurrentSize, stopChan, tickerC>>
    /\ ConcOnly

\* --- Get
\* c.mutex.RLock()
Cache_Get_rlock(p, key) ==
    /\ Alive /\ pc[p] = "idle" /\ CanRLock
    /\ mutex' = RLock(p)
    /\ Enter(p, "Get_read", [NoFrame EXCEPT !.op = "Get", !.key = key])
    /\ UNCHANGED <<memItems, memCurrentSize, stopChan, tickerC>>
    /\ ConcOnly

Cache_Get_read(p) ==
    /\ Alive /\ pc[p] = "Get_read"
    /\ LET r == Cache_GetResult(frame[p].key) IN
       frame' = [frame EXCEPT ![p].at = now,
                   ![p].result = IF r.found THEN Some([Value |-> r.value])
                                 ELSE NoItem]
    /\ Goto(p, "Get_runlock")
    /\ UNCHANGED <<mutex, memItems, memCurrentSize, stopChan, tickerC>>
    /\ ConcOnly

Cache_Get_runlock(p) ==
    /\ Alive /\ pc[p] = "Get_runlock"
    /\ mutex' = RUnlock(p)
    /\ Return(p)
    /\ UNCHANGED <<memItems, memCurrentSize, stopChan, tickerC>>
    /\ ConcOnly

\* --- GetItem
\* GetItem taking the shared lock, as Get does
Cache_GetItem_rlock(p, key) ==
    /\ Alive /\ pc[p] = "idle" /\ CanRLock
    /\ mutex' = RLock(p)
    /\ Enter(p, "GetItem_lookup",
             [NoFrame EXCEPT !.op = "GetItem", !.key = key])
    /\ UNCHANGED <<memItems, memCurrentSize, stopChan, tickerC>>
    /\ ConcOnly

\* c.mutex.Lock()
Cache_GetItem_lock(p, key) ==
    /\ Alive /\ pc[p] = "idle" /\ CanLock
    /\ mutex' = Lock(p)
    /\ Enter(p, "GetItem_lookup",
             [NoFrame EXCEPT !.op = "GetItem", !.key = key])
    /\ UNCHANGED <<memItems, memCurrentSize, stopChan, tickerC>>
    /\ ConcOnly

\* the lookup and the test of the expiry
Cache_GetItem_lookup(p) ==
    /\ Alive /\ pc[p] = "GetItem_lookup"
    /\ LET h == generateHash(frame[p].key) IN
       IF h \notin DOMAIN memItems
       THEN /\ frame' = [frame EXCEPT ![p].at = now]
            /\ Goto(p, "GetItem_unlock")
       ELSE IF Cache_beforeExpiry(memItems[h], now)
       THEN /\ frame' = [frame EXCEPT ![p].at = now,
                           ![p].had = Some(memItems[h]),
                           ![p].result = Some(memItems[h])]
            /\ Goto(p, "GetItem_unlock")
       ELSE /\ frame' = [frame EXCEPT ![p].at = now,
                           ![p].had = Some(memItems[h])]
            /\ Goto(p, "GetItem_delete")
    /\ UNCHANGED <<mutex, memItems, memCurrentSize, stopChan, tickerC>>
    /\ ConcOnly

\* delete(c.items, hashKey)
Cache_GetItem_delete(p) ==
    /\ Alive /\ pc[p] = "GetItem_delete"
    /\ memItems' = Remove(memItems, generateHash(frame[p].key))
    /\ Goto(p, "GetItem_size")
    /\ UNCHANGED <<mutex, memCurrentSize, frame, stopChan, tickerC>>
    /\ ConcOnly

\* c.currentSize -= int64(item.Size)
Cache_GetItem_size(p) ==
    /\ Alive /\ pc[p] = "GetItem_size"
    /\ memCurrentSize' = memCurrentSize - frame[p].had.item.Size
    /\ Goto(p, "GetItem_unlock")
    /\ UNCHANGED <<mutex, memItems, frame, stopChan, tickerC>>
    /\ ConcOnly

Cache_GetItem_unlock(p) ==
    /\ Alive /\ pc[p] = "GetItem_unlock"
    /\ mutex' = Unlock(p)
    /\ Return(p)
    /\ UNCHANGED <<memItems, memCurrentSize, stopChan, tickerC>>
    /\ ConcOnly

\* --- Delete
Cache_Delete_lock(p, key) ==
    /\ Alive /\ pc[p] = "idle" /\ CanLock
    /\ mutex' = Lock(p)
    /\ Enter(p, "Delete_lookup",
             [NoFrame EXCEPT !.op = "Delete", !.key = key])
    /\ UNCHANGED <<memItems, memCurrentSize, stopChan, tickerC>>
    /\ ConcOnly

Cache_Delete_lookup(p) ==
    /\ Alive /\ pc[p] = "Delete_lookup"
    /\ LET h == generateHash(frame[p].key) IN
       IF h \in DOMAIN memItems
       THEN /\ frame' = [frame EXCEPT ![p].had = Some(memItems[h])]
            /\ memItems' = Remove(memItems, h)
            /\ Goto(p, "Delete_size")
       ELSE /\ Goto(p, "Delete_unlock")
            /\ UNCHANGED <<frame, memItems>>
    /\ UNCHANGED <<mutex, memCurrentSize, stopChan, tickerC>>
    /\ ConcOnly

Cache_Delete_size(p) ==
    /\ Alive /\ pc[p] = "Delete_size"
    /\ memCurrentSize' = memCurrentSize - frame[p].had.item.Size
    /\ Goto(p, "Delete_unlock")
    /\ UNCHANGED <<mutex, memItems, frame, stopChan, tickerC>>
    /\ ConcOnly

Cache_Delete_unlock(p) ==
    /\ Alive /\ pc[p] = "Delete_unlock"
    /\ mutex' = Unlock(p)
    /\ Return(p)
    /\ UNCHANGED <<memItems, memCurrentSize, stopChan, tickerC>>
    /\ ConcOnly

\* --- Clear
Cache_Clear_lock(p) ==
    /\ Alive /\ pc[p] = "idle" /\ CanLock
    /\ mutex' = Lock(p)
    /\ Enter(p, "Clear_items", [NoFrame EXCEPT !.op = "Clear"])
    /\ UNCHANGED <<memItems, memCurrentSize, stopChan, tickerC>>
    /\ ConcOnly

Cache_Clear_items(p) ==
    /\ Alive /\ pc[p] = "Clear_items"
    /\ memItems' = EmptyMap
    /\ Goto(p, "Clear_size")
    /\ UNCHANGED <<mutex, memCurrentSize, frame, stopChan, tickerC>>
    /\ ConcOnly

Cache_Clear_size(p) ==
    /\ Alive /\ pc[p] = "Clear_size"
    /\ memCurrentSize' = 0
    /\ Goto(p, "Clear_unlock")
    /\ UNCHANGED <<mutex, memItems, frame, stopChan, tickerC>>
    /\ ConcOnly

Cache_Clear_unlock(p) ==
    /\ Alive /\ pc[p] = "Clear_unlock"
    /\ mutex' = Unlock(p)
    /\ Return(p)
    /\ UNCHANGED <<memItems, memCurrentSize, stopChan, tickerC>>
    /\ ConcOnly

\* --- Stats
Cache_Stats_rlock(p) ==
    /\ Alive /\ pc[p] = "idle" /\ CanRLock
    /\ mutex' = RLock(p)
    /\ Enter(p, "Stats_count", [NoFrame EXCEPT !.op = "Stats"])
    /\ UNCHANGED <<memItems, memCurrentSize, stopChan, tickerC>>
    /\ ConcOnly

\* "items_count": len(c.items); sum is the size of the entries counted
Cache_Stats_count(p) ==
    /\ Alive /\ pc[p] = "Stats_count"
    /\ frame' = [frame EXCEPT ![p].count = Cardinality(DOMAIN memItems),
                              ![p].sum = SumSize(memItems)]
    /\ Goto(p, "Stats_size")
    /\ UNCHANGED <<mutex, memItems, memCurrentSize, stopChan, tickerC>>
    /\ ConcOnly

\* "current_size": c.currentSize
Cache_Stats_size(p) ==
    /\ Alive /\ pc[p] = "Stats_size"
    /\ frame' = [frame EXCEPT ![p].size = memCurrentSize]
    /\ Goto(p, "Stats_runlock")
    /\ UNCHANGED <<mutex, memItems, memCurrentSize, stopChan, tickerC>>
    /\ ConcOnly

Cache_Stats_runlock(p) ==
    /\ Alive /\ pc[p] = "Stats_runlock"
    /\ mutex' = RUnlock(p)
    /\ Return(p)
    /\ UNCHANGED <<memItems, memCurrentSize, stopChan, tickerC>>
    /\ ConcOnly

\* --- Stop: close(c.stopChan); closing a closed channel panics
Cache_Stop(p) ==
    /\ Alive /\ pc[p] = "idle"
    /\ IF stopChan = "open"
       THEN /\ stopChan' = "closed"
            /\ UNCHANGED pc
       ELSE /\ pc' = [pc EXCEPT ![p] = "panicked"]
            /\ UNCHANGED stopChan
    /\ UNCHANGED <<mutex, frame, memItems, memCurrentSize, tickerC>>
    /\ ConcOnly

\* --- the sweep goroutine: startCleanup and cleanup
\* the ticker delivers a tick; ticker.C holds one tick at most
Ticker_fire ==
    /\ Alive /\ pc[Sweeper] # "done" /\ ~tickerC
    /\ tickerC' = TRUE
    /\ UNCHANGED <<mutex, pc, frame, memItems, memCurrentSize, stopChan>>
    /\ ConcOnly

\* the select consuming the tick without running cleanup
startCleanup_tick_drop ==
    /\ Alive /\ pc[Sweeper] = "select" /\ tickerC
    /\ tickerC' = FALSE
    /\ UNCHANGED <<mutex, pc, frame, memItems, memCurrentSize, stopChan>>
    /\ ConcOnly

\* select: case <-ticker.C
startCleanup_tick ==
    /\ Alive /\ pc[Sweeper] = "select" /\ tickerC
    /\ tickerC' = FALSE
    /\ Goto(Sweeper, "cleanup")
    /\ UNCHANGED <<mutex, frame, memItems, memCurrentSize, stopChan>>
    /\ ConcOnly

\* select: case <-c.stopChan
startCleanup_stop ==
    /\ Alive /\ pc[Sweeper] = "select" /\ stopChan = "closed"
    /\ Goto(Sweeper, "done")
    /\ UNCHANGED <<mutex, frame, memItems, memCurrentSize, stopChan,
                   tickerC>>
    /\ ConcOnly

\* cleanup: c.mutex.Lock(); now := time.Now()
Cache_cleanup_lock ==
    /\ Alive /\ pc[Sweeper] = "cleanup" /\ CanLock
    /\ mutex' = Lock(Sweeper)
    /\ Enter(Sweeper, "cleanup_loop",
             [NoFrame EXCEPT !.op = "cleanup", !.at = now])
    /\ UNCHANGED <<memItems, memCurrentSize, stopChan, tickerC>>
    /\ ConcOnly

\* one iteration of the range loop that meets an expired entry
Cache_cleanup_loop ==
    /\ Alive /\ pc[Sweeper] = "cleanup_loop"
    /\ \E d \in DOMAIN memItems :
         /\ Cache_sweepable(memItems[d], frame[Sweeper].at)
         /\ memItems' = Remove(memItems, d)
         /\ memCurrentSize' = memCurrentSize - memItems[d].Size
    /\ UNCHANGED <<mutex, pc, frame, stopChan, tickerC>>
    /\ ConcOnly

\* the range loop is over; the deferred Unlock runs
Cache_cleanup_unlock ==
    /\ Alive /\ pc[Sweeper] = "cleanup_loop"
    /\ \A d \in DOMAIN memItems :
         ~Cache_sweepable(memItems[d], frame[Sweeper].at)
    /\ mutex' = Unlock(Sweeper)
    /\ pc' = [pc EXCEPT ![Sweeper] = "select"]
    /\ frame' = [frame EXCEPT ![Sweeper] = NoFrame]
    /\ UNCHANGED <<memItems, memCurrentSize, stopChan, tickerC>>
    /\ ConcOnly

\* NewCache: the memory backend, its sweep goroutine started
InitConc ==
    /\ Init
    /\ storageType = "memory"

NextConc ==
    \/ \E p \in Threads, k \in Keys2, v \in ValuesConc, h \in HeaderMaps,
          s \in StatusCodes, t \in TTLsConc :
            Cache_SetWithHeaders_lock(p, k, v, h, s, t)
    \/ \E p \in Threads : Cache_SetWithHeaders_replace(p)
    \/ \E p \in Threads : Cache_SetWithHeaders_evict(p)
    \/ \E p \in Threads : Cache_SetWithHeaders_insert(p)
    \/ \E p \in Threads : Cache_SetWithHeaders_size(p)
    \/ \E p \in Threads : Cache_SetWithHeaders_unlock(p)
    \/ \E p \in Threads, k \in Keys2 : Cache_Get_rlock(p, k)
    \/ \E p \in Threads : Cache_Get_read(p)
    \/ \E p \in Threads : Cache_Get_runlock(p)
    \/ \E p \in Threads, k \in Keys2 : Cache_GetItem_lock(p, k)
    \/ \E p \in Threads : Cache_GetItem_lookup(p)
    \/ \E p \in Threads : Cache_GetItem_delete(p)
    \/ \E p \in Threads : Cache_GetItem_size(p)
    \/ \E p \in Threads : Cache_GetItem_unlock(p)
    \/ \E p \in Threads, k \in Keys2 : Cache_Delete_lock(p, k)
    \/ \E p \in Threads : Cache_Delete_lookup(p)
    \/ \E p \in Threads : Cache_Delete_size(p)
    \/ \E p \in Threads : Cache_Delete_unlock(p)
    \/ \E p \in Threads : Cache_Clear_lock(p)
    \/ \E p \in Threads : Cache_Clear_items(p)
    \/ \E p \in Threads : Cache_Clear_size(p)
    \/ \E p \in Threads : Cache_Clear_unlock(p)
    \/ \E p \in Threads : Cache_Stats_rlock(p)
    \/ \E p \in Threads : Cache_Stats_count(p)
    \/ \E p \in Threads : Cache_Stats_size(p)
    \/ \E p \in Threads : Cache_Stats_runlock(p)
    \/ \E p \in Threads : Cache_Stop(p)
    \/ Ticker_fire
    \/ startCleanup_tick
    \/ startCleanup_stop
    \/ Cache_cleanup_lock
    \/ Cache_cleanup_loop
    \/ Cache_cleanup_unlock
    \/ Tick

SpecConc == InitConc /\ [][NextConc]_vars

\* ------------------------------------------ memory backend, fair scheduling
\* sync.RWMutex: a Lock call that is blocked keeps new readers out, so that
\* the lock becomes available to the writer; the sweep goroutine is the
\* writer whose wait the model shows (pc "cleanup")
RWMutex_writerWaiting == pc[Sweeper] = "cleanup"

\* a step of thread p inside a call it has started
Cache_running(p) ==
    \/ Cache_SetWithHeaders_replace(p)
    \/ Cache_SetWithHeaders_evict(p)
    \/ Cache_SetWithHeaders_insert(p)
    \/ Cache_SetWithHeaders_size(p)
    \/ Cache_SetWithHeaders_unlock(p)
    \/ Cache_Get_read(p)
    \/ Cache_Get_runlock(p)
    \/ Cache_GetItem_lookup(p)
    \/ Cache_GetItem_delete(p)
    \/ Cache_GetItem_size(p)
    \/ Cache_GetItem_unlock(p)

\* the key the threads read
KeysRead == {"a.com:GET:/x"}

\* payloads of one byte
ValuesSweep == {[i \in 1..n |-> 104] : n \in {1}}

NextSweep ==
    \/ \E p \in Threads, k \in Keys2, v \in ValuesSweep, h \in HeaderMaps,
          s \in StatusCodes, t \in TTLsConc :
            Cache_SetWithHeaders_lock(p, k, v, h, s, t)
    \/ \E p \in Threads, k \in KeysRead :
          ~RWMutex_writerWaiting /\ Cache_Get_rlock(p, k)
    \/ \E p \in Threads, k \in KeysRead : Cache_GetItem_lock(p, k)
    \/ \E p \in Threads : Cache_running(p)
    \/ \E p \in Threads : Cache_Stop(p)
    \/ Ticker_fire
    \/ startCleanup_tick
    \/ startCleanup_stop
    \/ Cache_cleanup_lock
    \/ Cache_cleanup_loop
    \/ Cache_cleanup_unlock
    \/ Tick

\* the ticker keeps ticking, every goroutine that can run does run, and a
\* goroutine waiting in Lock gets the lock in the end (sync.Mutex hands the
\* lock to a waiter that has waited for long)
FairSweep ==
    /\ WF_vars(Ticker_fire)
    /\ WF_vars(startCleanup_tick)
    /\ SF_vars(Cache_cleanup_lock)
    /\ WF_vars(Cache_cleanup_loop)
    /\ WF_vars(Cache_cleanup_unlock)
    /\ \A p \in Threads : WF_vars(Cache_running(p))

SpecSweep == InitConc /\ [][NextSweep]_vars /\ FairSweep

\* --------------------------------------------- file backend, several threads
\* The handlers of the file backend, run by several threads.  GetItem holds
\* fc.mutex.RLock() for the lookup only: the test of the expiry, the read of
\* the data file and the call of fc.Delete come after RUnlock.  A step
\* under fc.mutex.Lock() is split where it touches the data directory, which
\* the read of GetItem sees without the lock.  Every file operation
\* succeeds, but for the read of a file that is not there.
FileConcOnly == UNCHANGED <<storageType, maxSize, cfgDefaultTTL, ttl,
                            persistent, memItems, memCurrentSize, faults,
                            restarts, last, now, stopChan, tickerC,
                            callerBuf>>

\* a call of thread p starts with the frame of its arguments
Call(p, label, f) ==
    /\ pc' = [pc EXCEPT ![p] = label]
    /\ frame' = [frame EXCEPT ![p] = f]

\* --- SetWithHeaders
\* fc.mutex.Lock()
FileCache_SetWithHeaders_lock(p, key, value, headers, statusCode, t) ==
    /\ storageType = "file" /\ pc[p] = "idle" /\ CanLock
    /\ mutex' = Lock(p)
    /\ Call(p, "FSet_replace",
            [NoFrame EXCEPT !.op = "SetWithHeaders", !.key = key,
               !.value = value, !.headers = headers,
               !.status = statusCode, !.ttl = t])
    /\ UNCHANGED <<fcItems, fcCurrentSize, indexFile, dataDir, stored>>
    /\ FileConcOnly

\* remove the existing item, and its data file, if it exists
FileCache_SetWithHeaders_replace(p) ==
    /\ pc[p] = "FSet_replace"
    /\ LET h == generateHash(frame[p].key) IN
       IF h \in DOMAIN fcItems
       THEN /\ fcCurrentSize' = fcCurrentSize - fcItems[h].Size
            /\ dataDir' = Remove(dataDir, fcItems[h].DataFile)
            /\ fcItems' = Remove(fcItems, h)
       ELSE UNCHANGED <<fcItems, fcCurrentSize, dataDir>>
    /\ stored' = [stored EXCEPT ![frame[p].key] = NoStore]
    /\ Goto(p, "FSet_evict")
    /\ UNCHANGED <<mutex, frame, indexFile>>
    /\ FileConcOnly

\* the eviction loop
FileCache_SetWithHeaders_evict(p) ==
    /\ pc[p] = "FSet_evict"
    /\ \E out \in FileCache_evictLoop(fcItems, fcCurrentSize, dataDir,
                                      Len(frame[p].value), <<>>) :
         /\ fcItems' = out.items
         /\ fcCurrentSize' = out.currentSize
         /\ dataDir' = out.files
         /\ stored' = [k \in Keys |->
                         IF k \in {out.log[i].item.Key :
                                      i \in 1..Len(out.log)}
                         THEN NoStore ELSE stored[k]]
    /\ Goto(p, "FSet_create")
    /\ UNCHANGED <<mutex, frame, indexFile>>
    /\ FileConcOnly

\* os.WriteFile opens the data file with O_CREATE|O_TRUNC ...
FileCache_SetWithHeaders_create(p) ==
    /\ pc[p] = "FSet_create"
    /\ dataDir' = Put(dataDir, DataFileName(generateHash(frame[p].key)),
                      <<>>)
    /\ Goto(p, "FSet_write")
    /\ UNCHANGED <<mutex, frame, fcItems, fcCurrentSize, indexFile,
                   stored>>
    /\ FileConcOnly

\* ... and writes the payload
FileCache_SetWithHeaders_write(p) ==
    /\ pc[p] = "FSet_write"
    /\ dataDir' = Put(dataDir, DataFileName(generateHash(frame[p].key)),
                      frame[p].value)
    /\ Goto(p, "FSet_insert")
    /\ UNCHANGED <<mutex, frame, fcItems, fcCurrentSize, indexFile,
                   stored>>
    /\ FileConcOnly

\* the record a store builds at time at
FileCache_newItem(f, at) ==
    [Key |-> f.key, Headers |-> f.headers, StatusCode |-> f.status,
     CreatedAt |-> at,
     ExpiresAt |-> IF persistent THEN ZeroTime
                   ELSE IF f.ttl = 0 THEN at + ttl ELSE at + f.ttl,
     Size |-> Len(f.value),
     DataFile |-> DataFileName(generateHash(f.key))]

\* fc.items[hashKey] = item; fc.currentSize += ...; fc.saveIndex()
FileCache_SetWithHeaders_insert(p) ==
    /\ pc[p] = "FSet_insert"
    /\ fcItems' = Put(fcItems, generateHash(frame[p].key),
                      FileCache_newItem(frame[p], now))
    /\ fcCurrentSize' = fcCurrentSize + Len(frame[p].value)
    /\ indexFile' = saveIndex(fcItems')
    /\ stored' = [stored EXCEPT ![frame[p].key] =
                     [set |-> TRUE, at |-> now, ttl |-> frame[p].ttl,
                      value |-> frame[p].value]]
    /\ frame' = [frame EXCEPT ![p].at = now]
    /\ Goto(p, "FSet_unlock")
    /\ UNCHANGED <<mutex, dataDir>>
    /\ FileConcOnly

\* what GetItem hands back for a record and the bytes read from its file
FileCache_CacheItem(item, data) ==
    [Key |-> item.Key, Value |-> data, Headers |-> item.Headers,
     StatusCode |-> item.StatusCode, ExpiresAt |-> item.ExpiresAt,
     Size |-> item.Size]

\* the deferred Unlock ran and the store returned
FileCache_SetWithHeaders_unlock(p) ==
    /\ pc[p] = "FSet_unlock"
    /\ mutex' = Unlock(p)
    /\ Return(p)
    /\ UNCHANGED <<fcItems, fcCurrentSize, indexFile, dataDir, stored>>
    /\ FileConcOnly

\* --- GetItem
\* fc.mutex.RLock()
FileCache_GetItem_rlock(p, key) ==
    /\ storageType = "file" /\ pc[p] = "idle" /\ CanRLock
    /\ mutex' = RLock(p)
    /\ Call(p, "FGetItem_lookup",
            [NoFrame EXCEPT !.op = "GetItem", !.key = key])
    /\ UNCHANGED <<fcItems, fcCurrentSize, indexFile, dataDir, stored>>
    /\ FileConcOnly

\* item, exists := fc.items[hashKey]
FileCache_GetItem_lookup(p) ==
    /\ pc[p] = "FGetItem_lookup"
    /\ LET h == generateHash(frame[p].key) IN
       frame' = [frame EXCEPT ![p].had =
                    IF h \in DOMAIN fcItems THEN Some(fcItems[h])
                    ELSE NoItem,
                  ![p].store = stored[frame[p].key]]
    /\ Goto(p, "FGetItem_runlock")
    /\ UNCHANGED <<mutex, fcItems, fcCurrentSize, indexFile, dataDir,
                   stored>>
    /\ FileConcOnly

\* fc.mutex.RUnlock()
FileCache_GetItem_runlock(p) ==
    /\ pc[p] = "FGetItem_runlock"
    /\ mutex' = RUnlock(p)
    /\ Goto(p, "FGetItem_check")
    /\ UNCHANGED <<frame, fcItems, fcCurrentSize, indexFile, dataDir,
                   stored>>
    /\ FileConcOnly

\* if !exists { return nil }, and the test of the expiry
FileCache_GetItem_check(p) ==
    /\ pc[p] = "FGetItem_check"
    /\ IF ~frame[p].had.found
       THEN /\ Goto(p, "FGetItem_return")
            /\ frame' = [frame EXCEPT ![p].at = now]
       ELSE IF FileCache_expired(frame[p].had.item, now)
       THEN /\ Goto(p, "FGetItem_delete")
            /\ frame' = [frame EXCEPT ![p].at = now]
       ELSE /\ Goto(p, "FGetItem_read")
            /\ frame' = [frame EXCEPT ![p].at = now]
    /\ UNCHANGED <<mutex, fcItems, fcCurrentSize, indexFile, dataDir,
                   stored>>
    /\ FileConcOnly

\* os.ReadFile(dataFilePath)
FileCache_GetItem_read(p) ==
    /\ pc[p] = "FGetItem_read"
    /\ LET rd == ReadFile(frame[p].had.item.DataFile, TRUE) IN
       IF rd.err
       THEN /\ Goto(p, "FGetItem_delete")
            /\ UNCHANGED frame
       ELSE /\ Goto(p, "FGetItem_return")
            /\ frame' = [frame EXCEPT ![p].result =
                            Some(FileCache_CacheItem(frame[p].had.item,
                                                     rd.data))]
    /\ UNCHANGED <<mutex, fcItems, fcCurrentSize, indexFile, dataDir,
                   stored>>
    /\ FileConcOnly

\* fc.Delete(key), called by GetItem: fc.mutex.Lock()
FileCache_GetItem_delete(p) ==
    /\ pc[p] = "FGetItem_delete" /\ CanLock
    /\ mutex' = Lock(p)
    /\ Goto(p, "FDelete_remove")
    /\ UNCHANGED <<frame, fcItems, fcCurrentSize, indexFile, dataDir,
                   stored>>
    /\ FileConcOnly

\* GetItem returns frame[p].result
FileCache_GetItem_return(p) ==
    /\ pc[p] = "FGetItem_return"
    /\ Return(p)
    /\ UNCHANGED <<mutex, fcItems, fcCurrentSize, indexFile, dataDir,
                   stored>>
    /\ FileConcOnly

\* --- Delete
\* fc.mutex.Lock()
FileCache_Delete_lock(p, key) ==
    /\ storageType = "file" /\ pc[p] = "idle" /\ CanLock
    /\ mutex' = Lock(p)
    /\ Call(p, "FDelete_remove",
            [NoFrame EXCEPT !.op = "Delete", !.key = key])
    /\ UNCHANGED <<fcItems, fcCurrentSize, indexFile, dataDir, stored>>
    /\ FileConcOnly

\* the body of Delete: the entry the map holds for the key now goes, with
\* its data file, and the index is saved
FileCache_Delete_remove(p) ==
    /\ pc[p] = "FDelete_remove"
    /\ LET h == generateHash(frame[p].key) IN
       IF h \in DOMAIN fcItems
       THEN /\ FileCache_remove(h)
            /\ frame' = [frame EXCEPT ![p].removed = Some(fcItems[h])]
       ELSE UNCHANGED <<frame, fcItems, fcCurrentSize, indexFile, dataDir>>
    /\ stored' = [stored EXCEPT ![frame[p].key] = NoStore]
    /\ Goto(p, "FDelete_unlock")
    /\ UNCHANGED mutex
    /\ FileConcOnly

\* the deferred Unlock ran; Delete returns, to GetItem when GetItem called it
FileCache_Delete_unlock(p) ==
    /\ pc[p] = "FDelete_unlock"
    /\ mutex' = Unlock(p)
    /\ IF frame[p].op = "GetItem"
       THEN /\ Goto(p, "FGetItem_return")
            /\ UNCHANGED frame
       ELSE Return(p)
    /\ UNCHANGED <<fcItems, fcCurrentSize, indexFile, dataDir, stored>>
    /\ FileConcOnly

\* --- Clear
FileCache_Clear_lock(p) ==
    /\ storageType = "file" /\ pc[p] = "idle" /\ CanLock
    /\ mutex' = Lock(p)
    /\ Call(p, "FClear_files", [NoFrame EXCEPT !.op = "Clear"])
    /\ UNCHANGED <<fcItems, fcCurrentSize, indexFile, dataDir, stored>>
    /\ FileConcOnly

\* every file of the data directory is removed
FileCache_Clear_files(p) ==
    /\ pc[p] = "FClear_files"
    /\ dataDir' = EmptyMap
    /\ Goto(p, "FClear_items")
    /\ UNCHANGED <<mutex, frame, fcItems, fcCurrentSize, indexFile,
                   stored>>
    /\ FileConcOnly

\* fc.items = make(...); fc.currentSize = 0; fc.saveIndex()
FileCache_Clear_items(p) ==
    /\ pc[p] = "FClear_items"
    /\ fcItems' = EmptyMap
    /\ fcCurrentSize' = 0
    /\ indexFile' = saveIndex(fcItems')
    /\ stored' = [k \in Keys |-> NoStore]
    /\ Goto(p, "FClear_unlock")
    /\ UNCHANGED <<mutex, frame, dataDir>>
    /\ FileConcOnly

FileCache_Clear_unlock(p) ==
    /\ pc[p] = "FClear_unlock"
    /\ mutex' = Unlock(p)
    /\ Return(p)
    /\ UNCHANGED <<fcItems, fcCurrentSize, indexFile, dataDir, stored>>
    /\ FileConcOnly

\* the clock, next to calls that are under way
FileConc_Tick ==
    /\ now < MaxTime
    /\ now' = now + 1
    /\ UNCHANGED <<storageType, maxSize, cfgDefaultTTL, ttl, persistent,
                   memItems, memCurrentSize, fcItems, fcCurrentSize,
                   indexFile, dataDir, faults, restarts, last, stored,
                   threads>>

\* NewFileCache on an empty directory, persistent mode off
InitFileConc ==
    /\ Init
    /\ storageType = "file"
    /\ ~persistent

ValuesFileConc == {[i \in 1..n |-> 104] : n \in {1, CfgMaxSize}}

NextFileConc ==
    \/ \E p \in Threads, k \in Keys2, v \in ValuesFileConc,
          h \in HeaderMaps, s \in StatusCodes, t \in TTLsConc :
            FileCache_SetWithHeaders_lock(p, k, v, h, s, t)
    \/ \E p \in Threads : FileCache_SetWithHeaders_replace(p)
    \/ \E p \in Threads : FileCache_SetWithHeaders_evict(p)
    \/ \E p \in Threads : FileCache_SetWithHeaders_create(p)
    \/ \E p \in Threads : FileCache_SetWithHeaders_write(p)
    \/ \E p \in Threads : FileCache_SetWithHeaders_insert(p)
    \/ \E p \in Threads : FileCache_SetWithHeaders_unlock(p)
    \/ \E p \in Threads, k \in Keys2 : FileCache_GetItem_rlock(p, k)
    \/ \E p \in Threads : FileCache_GetItem_lookup(p)
    \/ \E p \in Threads : FileCache_GetItem_runlock(p)
    \/ \E p \in Threads : FileCache_GetItem_check(p)
    \/ \E p \in Threads : FileCache_GetItem_read(p)
    \/ \E p \in Threads : FileCache_GetItem_delete(p)
    \/ \E p \in Threads : FileCache_GetItem_return(p)
    \/ \E p \in Threads, k \in Keys2 : FileCache_Delete_lock(p, k)
    \/ \E p \in Threads : FileCache_Delete_remove(p)
    \/ \E p \in Threads : FileCache_Delete_unlock(p)
    \/ \E p \in Threads : FileCache_Clear_lock(p)
    \/ \E p \in Threads : FileCache_Clear_files(p)
    \/ \E p \in Threads : FileCache_Clear_items(p)
    \/ \E p \in Threads : FileCache_Clear_unlock(p)
    \/ FileConc_Tick

SpecFileConc == InitFileConc /\ [][NextFileConc]_vars

\* ----------------------------------------------------------- configuration
\* A string of the configuration is the sequence of its characters.  A
\* number of bytes is kept as the product the code forms, n * 1024^exp.
Bytes(n, e) == [n |-> n, exp |-> e]

DecimalDigits == <<"0", "1", "2", "3", "4", "5", "6", "7", "8", "9">>
IsDigit(c) == \E i \in DOMAIN DecimalDigits : DecimalDigits[i] = c
DigitValue(c) == (CHOOSE i \in DOMAIN DecimalDigits : DecimalDigits[i] = c) - 1

\* the digits a number starts with
RECURSIVE ScanNumber(_)
ScanNumber(s) ==
    IF s # <<>> /\ IsDigit(Head(s)) THEN <<Head(s)>> \o ScanNumber(Tail(s))
    ELSE <<>>

\* strconv.ParseInt(tok, 10, 64) of a token of digits
RECURSIVE ParseInt(_)
ParseInt(tok) ==
    IF tok = <<>> THEN 0
    ELSE 10 * ParseInt(SubSeq(tok, 1, Len(tok) - 1))
            + DigitValue(tok[Len(tok)])

\* fmt.Sscanf(numStr, "%d", &size): an optional sign and the digits that
\* follow are scanned; what comes after the digits is not looked at, and
\* there is an error when no digit is found
Sscanf_d(numStr) ==
    LET signed == numStr # <<>> /\ Head(numStr) \in {"+", "-"}
        body == IF signed THEN Tail(numStr) ELSE numStr
        tok == ScanNumber(body)
    IN IF tok = <<>> THEN [err |-> TRUE, value |-> 0]
       ELSE [err |-> FALSE,
             value |-> IF signed /\ Head(numStr) = "-" THEN 0 - ParseInt(tok)
                       ELSE ParseInt(tok)]

\* the suffixes the switch of parseSize knows, with the power of 1024 they
\* stand for
UnitSuffixes ==
    {<<<<"K", "B">>, 1>>, <<<<"k", "b">>, 1>>,
     <<<<"M", "B">>, 2>>, <<<<"m", "b">>, 2>>,
     <<<<"G", "B">>, 3>>, <<<<"g", "b">>, 3>>}

NoParse == [err |-> FALSE, size |-> Bytes(0, 0), called |-> FALSE]

parseSize(sizeStr) ==
    IF sizeStr = <<>> THEN [err |-> TRUE, size |-> Bytes(0, 0),
                            called |-> TRUE]
    ELSE LET n == Len(sizeStr)
             suffix == SubSeq(sizeStr, n - 1, n)
             known == n > 2 /\ \E u \in UnitSuffixes : u[1] = suffix
             exp == IF known
                    THEN (CHOOSE u \in UnitSuffixes : u[1] = suffix)[2]
                    ELSE 0
             numStr == IF known THEN SubSeq(sizeStr, 1, n - 2) ELSE sizeStr
             sc == Sscanf_d(numStr)
         IN IF sc.err THEN [err |-> TRUE, size |-> Bytes(0, 0),
                            called |-> TRUE]
            ELSE [err |-> FALSE, size |-> Bytes(sc.value, exp),
                  called |-> TRUE]

\* NewCache: 100 * 1024 * 1024 when parseSize fails
NewCache_maxSize(sizeStr) ==
    IF parseSize(sizeStr).err THEN Bytes(100, 2)
    ELSE parseSize(sizeStr).size

\* the file backend falling back to the default of the memory backend
NewFileCache_maxSize_100MB(sizeStr) ==
    IF parseSize(sizeStr).err THEN Bytes(100, 2)
    ELSE parseSize(sizeStr).size

\* NewFileCache: 500 * 1024 * 1024 when parseSize fails
NewFileCache_maxSize(sizeStr) ==
    IF parseSize(sizeStr).err THEN Bytes(500, 2)
    ELSE parseSize(sizeStr).size

\* the switch of the factory taking the empty storage type for an
\* unsupported one
NewCacheStorage_backend_noDefault(t) ==
    CASE t \in {"file", "persistent"} -> "file"
      [] t \in {"memory"} -> "memory"
      [] OTHER -> "none"

\* the switch of NewCacheStorage: the backend built for a storage type
NewCacheStorage_backend(t) ==
    CASE t \in {"file", "persistent"} -> "file"
      [] t \in {"memory", ""} -> "memory"
      [] OTHER -> "none"

NoError == <<>>
\* fmt.Errorf("unsupported storage type: %s", config.StorageType)
NewCacheStorage_error(t) == <<"unsupported storage type: ", t>>

\* the process has started and not called the factory yet
Unbuilt == storageType = "none" /\ last.op = "new"

\* NewCacheStorage(config) on an empty cache directory: NewFileCache or
\* NewCache builds the backend, or nothing is built and the error returned
NewCacheStorage(config) ==
    /\ Unbuilt
    /\ LET b == NewCacheStorage_backend(config.StorageType) IN
       /\ storageType' = b
       /\ cfgDefaultTTL' = config.DefaultTTL
       /\ maxSize' = CASE b = "file" -> NewFileCache_maxSize(config.MaxSize)
                       [] b = "memory" -> NewCache_maxSize(config.MaxSize)
                       [] OTHER -> maxSize
       /\ ttl' = CASE b = "file" -> config.DefaultTTL
                   [] b = "memory" -> DefaultTTLRule(config.DefaultTTL)
                   [] OTHER -> ttl
       /\ persistent' = IF b = "file" THEN config.Persistent ELSE persistent
       /\ pc' = IF b = "memory" THEN [pc EXCEPT ![Sweeper] = "select"]
                ELSE pc
       /\ last' = [NoLast EXCEPT !.op = "NewCacheStorage", !.at = now,
                     !.cfg = config,
                     !.parsed = IF b = "none" THEN NoParse
                                ELSE parseSize(config.MaxSize),
                     !.err = IF b = "none"
                             THEN NewCacheStorage_error(config.StorageType)
                             ELSE NoError]
    /\ UNCHANGED <<now, memItems, memCurrentSize, fcItems, fcCurrentSize,
                   indexFile, dataDir, faults, restarts, stored, mutex,
                   frame, stopChan, tickerC, callerBuf>>

\* the configurations: every storage type the factory knows and one it
\* does not, every max_size of up to MaxStr characters
MaxStr == 3
SizeChars == {"0", "1", "K", "k", "M", "m", "G", "g", "B", "b", "x", "-"}
SizeStrings == UNION {[1..n -> SizeChars] : n \in 0..MaxStr}
StorageTypes == {"file", "persistent", "memory", "", "redis"}
Configs == [StorageType : StorageTypes, MaxSize : SizeStrings,
            DefaultTTL : DefaultTTLs, Persistent : BOOLEAN]

\* nothing is built yet
InitConfig ==
    /\ storageType = "none"
    /\ maxSize = Bytes(0, 0)
    /\ cfgDefaultTTL = 0
    /\ ttl = 0
    /\ persistent = FALSE
    /\ now = 1
    /\ memItems = EmptyMap
    /\ memCurrentSize = 0
    /\ fcItems = EmptyMap
    /\ fcCurrentSize = 0
    /\ indexFile = NoIndex
    /\ dataDir = EmptyMap
    /\ faults = 0
    /\ restarts = 0
    /\ last = NoLast
    /\ stored = [k \in Keys |-> NoStore]
    /\ InitThreads

\* the factory, and calls on the storage it returned
NextConfig ==
    \/ Unbuilt /\ \E config \in Configs : NewCacheStorage(config)
    \/ \E k \in Keys2 : Cache_GetItem(k)
    \/ Cache_Clear
    \/ \E k \in Keys2 : FileCache_GetItem(k, TRUE)
    \/ FileCache_Clear
    \/ FileCache_Stop

SpecConfig == InitConfig /\ [][NextConfig]_vars

\* ----------------------------------------------------- proxy and admin API
\* the requests the proxy serves: the domain of the matching rule, the
\* method, the path and the raw query
Domains == {"a.com", "b.com"}
Requests ==
    {[domain |-> "a.com", method |-> "GET", path |-> "/x", query |-> ""],
     [domain |-> "a.com", method |-> "GET", path |-> "/x",
      query |-> "id=1"],
     [domain |-> "b.com", method |-> "GET", path |-> "/y", query |-> ""]}

\* generateCacheKey: fmt.Sprintf("%s:%s:%s", domain, req.Method, path),
\* the path followed by "?" and the raw query when there is one
generateCacheKey(req, domain) ==
    LET path == IF req.query # "" THEN req.path \o "?" \o req.query
                ELSE req.path
    IN domain \o ":" \o req.method \o ":" \o path

\* the proxy caches the response to a request: rp.cache.SetWithHeaders
ReverseProxy_cacheResponse(req, body, headers, statusCode, t) ==
    \/ Cache_SetWithHeaders(generateCacheKey(req, req.domain), body,
                            headers, statusCode, t)
    \/ FileCache_SetWithHeaders(generateCacheKey(req, req.domain), body,
                                headers, statusCode, t, Len(body))

\* the proxy looks a request up: rp.cache.GetItem
ReverseProxy_lookup(req) ==
    \/ Cache_GetItem(generateCacheKey(req, req.domain))
    \/ FileCache_GetItem(generateCacheKey(req, req.domain), TRUE)

\* DELETE /api/v1/cache/:key: a.cache.Delete(c.Param("key"))
AdminAPI_deleteCacheKey(key) ==
    \/ Cache_Delete(key)
    \/ FileCache_Delete(key)

NextAdmin ==
    \/ \E req \in Requests, v \in ValuesDisk, h \in HeaderMaps,
          s \in StatusCodes, t \in TTLsDisk :
            ReverseProxy_cacheResponse(req, v, h, s, t)
    \/ \E req \in Requests : ReverseProxy_lookup(req)
    \/ \E d \in Domains : AdminAPI_deleteCacheKey(d)
    \/ Tick

SpecAdmin == Init /\ [][NextAdmin]_vars

\* ------------------------------------- the eviction loop, turn by turn
\* The loop of SetWithHeaders one test and one eviction at a time, in both
\* backends, under the lock the store holds.  frame[p].iter counts the
\* evictions of the call, frame[p].itemsAtLoop is len(items) when the loop
\* was reached.

\* the count of the turns stops one past the number of keys
MaxTurns == Cardinality(Keys) + 1
CountTurn(n) == IF n < MaxTurns THEN n + 1 ELSE n

\* evictLRU leaving the map as it is: the scan ends with oldestKey == ""
Cache_SetWithHeaders_evictLRU_none(p) ==
    /\ Alive /\ pc[p] = "Set_evictLRU"
    /\ frame' = [frame EXCEPT ![p].iter = CountTurn(@)]
    /\ Goto(p, "Set_evict")
    /\ UNCHANGED <<mutex, memItems, memCurrentSize, stopChan, tickerC>>
    /\ ConcOnly

\* for c.currentSize+int64(len(value)) > c.maxSize && len(c.items) > 0
Cache_SetWithHeaders_loop(p) ==
    /\ Alive /\ pc[p] = "Set_evict"
    /\ IF memCurrentSize + Len(frame[p].value) > maxSize
          /\ Cardinality(DOMAIN memItems) > 0
       THEN Goto(p, "Set_evictLRU")
       ELSE Goto(p, "Set_insert")
    /\ frame' = [frame EXCEPT ![p].itemsAtLoop =
                    IF @ = -1 THEN Cardinality(DOMAIN memItems) ELSE @]
    /\ UNCHANGED <<mutex, memItems, memCurrentSize, stopChan, tickerC>>
    /\ ConcOnly

\* c.evictLRU(): the entry the scan ends on leaves the map, and its Size
\* leaves currentSize
Cache_SetWithHeaders_evictLRU(p) ==
    /\ Alive /\ pc[p] = "Set_evictLRU"
    /\ IF Cache_evictLRU(memItems) = {}
       THEN UNCHANGED <<memItems, memCurrentSize>>
       ELSE \E d \in Cache_evictLRU(memItems) :
              /\ memCurrentSize' = memCurrentSize - memItems[d].Size
              /\ memItems' = Remove(memItems, d)
    /\ frame' = [frame EXCEPT ![p].iter = CountTurn(@)]
    /\ Goto(p, "Set_evict")
    /\ UNCHANGED <<mutex, stopChan, tickerC>>
    /\ ConcOnly

\* for fc.currentSize+int64(len(value)) > fc.maxSize && len(fc.items) > 0
FileCache_SetWithHeaders_loop(p) ==
    /\ pc[p] = "FSet_evict"
    /\ IF fcCurrentSize + Len(frame[p].value) > maxSize
          /\ Cardinality(DOMAIN fcItems) > 0
       THEN Goto(p, "FSet_evictOldest")
       ELSE Goto(p, "FSet_create")
    /\ frame' = [frame EXCEPT ![p].itemsAtLoop =
                    IF @ = -1 THEN Cardinality(DOMAIN fcItems) ELSE @]
    /\ UNCHANGED <<mutex, fcItems, fcCurrentSize, indexFile, dataDir,
                   stored>>
    /\ FileConcOnly

\* fc.evictOldest(): the entry the scan ends on leaves the map with its
\* data file, and its Size leaves currentSize
FileCache_SetWithHeaders_evictOldest(p) ==
    /\ pc[p] = "FSet_evictOldest"
    /\ IF FileCache_evictOldest(fcItems) = {}
       THEN UNCHANGED <<fcItems, fcCurrentSize, dataDir, stored>>
       ELSE \E d \in FileCache_evictOldest(fcItems) :
              /\ dataDir' = Remove(dataDir, fcItems[d].DataFile)
              /\ fcCurrentSize' = fcCurrentSize - fcItems[d].Size
              /\ fcItems' = Remove(fcItems, d)
              /\ stored' = [k \in Keys |->
                              IF k = fcItems[d].Key THEN NoStore
                              ELSE stored[k]]
    /\ frame' = [frame EXCEPT ![p].iter = CountTurn(@)]
    /\ Goto(p, "FSet_evict")
    /\ UNCHANGED <<mutex, indexFile>>
    /\ FileConcOnly

\* a step of thread p inside a store it has started
SetWithHeaders_running(p) ==
    \/ Cache_SetWithHeaders_replace(p)
    \/ Cache_SetWithHeaders_loop(p)
    \/ Cache_SetWithHeaders_evictLRU(p)
    \/ Cache_SetWithHeaders_insert(p)
    \/ Cache_SetWithHeaders_size(p)
    \/ Cache_SetWithHeaders_unlock(p)
    \/ FileCache_SetWithHeaders_replace(p)
    \/ FileCache_SetWithHeaders_loop(p)
    \/ FileCache_SetWithHeaders_evictOldest(p)
    \/ FileCache_SetWithHeaders_create(p)
    \/ FileCache_SetWithHeaders_write(p)
    \/ FileCache_SetWithHeaders_insert(p)
    \/ FileCache_SetWithHeaders_unlock(p)

NextLoop ==
    \/ \E p \in Threads, k \in Keys, v \in ValuesConc, h \in HeaderMaps,
          s \in StatusCodes, t \in TTLsConc :
            storageType = "memory"
                /\ Cache_SetWithHeaders_lock(p, k, v, h, s, t)
    \/ \E p \in Threads, k \in Keys, v \in ValuesConc, h \in HeaderMaps,
          s \in StatusCodes, t \in TTLsConc :
            FileCache_SetWithHeaders_lock(p, k, v, h, s, t)
    \/ \E p \in Threads : SetWithHeaders_running(p)
    \/ FileConc_Tick

\* a goroutine that is inside a call and can take its next step takes it
FairLoop == \A p \in Threads : WF_vars(SetWithHeaders_running(p))

SpecLoop == Init /\ [][NextLoop]_vars /\ FairLoop

\* ------------------------------------------- memory backend, caller's slice
\* A []byte is a view of a backing array: a write through one slice shows
\* in every slice of the same array.  The caller of SetWithHeaders keeps
\* the slice it passed and may write to it after the call.

\* the item keeping the caller's slice as its Value
Cache_newValue_aliased(bufs, p, h) ==
    [q \in Threads |->
        [bufs[q] EXCEPT !.shares = IF q = p THEN @ \cup {h} ELSE @ \ {h}]]

\* Value: make([]byte, len(value)); copy(item.Value, value): the Value of
\* the item now at digest h is an array of its own
Cache_newValue(bufs, p, h) ==
    [q \in Threads |-> [bufs[q] EXCEPT !.shares = @ \ {h}]]

\* payloads of one byte that can be told apart
ValuesAlias == {<<104>>, <<105>>}

AliasOnly == UNCHANGED <<storageType, maxSize, cfgDefaultTTL, ttl,
                         persistent, fcItems, fcCurrentSize, indexFile,
                         dataDir, faults, restarts, mutex, pc, frame,
                         stopChan, tickerC>>

\* the caller allocates a slice and fills it: body: make([]byte, 0) and
\* the appends of Write
Caller_alloc(p, v) ==
    /\ callerBuf' = [callerBuf EXCEPT ![p] = [NoBuf EXCEPT !.data = v]]
    /\ UNCHANGED <<now, memItems, memCurrentSize, last, stored>>
    /\ AliasOnly

\* rp.cache.SetWithHeaders(cacheKey, writer.body, ...)
Caller_SetWithHeaders(p, key, headers, statusCode, t) ==
    /\ Len(callerBuf[p].data) > 0
    /\ Cache_store(key, callerBuf[p].data, headers, statusCode, t)
    /\ callerBuf' =
          LET bufs == Cache_newValue(callerBuf, p, generateHash(key)) IN
          [bufs EXCEPT ![p].key = key]
    /\ AliasOnly

\* the caller writes v over the bytes of its slice; the write reaches
\* every Value that has the same backing array
Caller_modify(p, v) ==
    /\ Len(v) = Len(callerBuf[p].data)
    /\ v # callerBuf[p].data
    /\ callerBuf' = [callerBuf EXCEPT ![p].data = v]
    /\ memItems' = [d \in DOMAIN memItems |->
                      IF d \in callerBuf[p].shares
                      THEN [memItems[d] EXCEPT !.Value = v]
                      ELSE memItems[d]]
    /\ UNCHANGED <<now, memCurrentSize, last, stored>>
    /\ AliasOnly

InitAlias == Init /\ storageType = "memory"

NextAlias ==
    \/ \E p \in Threads, v \in ValuesAlias : Caller_alloc(p, v)
    \/ \E p \in Threads, k \in Keys2, h \in HeaderMaps, s \in StatusCodes,
          t \in TTLsConc : Caller_SetWithHeaders(p, k, h, s, t)
    \/ \E p \in Threads, v \in ValuesAlias : Caller_modify(p, v)
    \/ \E k \in KeysRead : Cache_Get(k)
    \/ \E k \in KeysRead : Cache_GetItem(k)
    \/ Tick

SpecAlias == InitAlias /\ [][NextAlias]_vars

\* ------------------------------------------------------------------ claims
Stores(op) == op = "SetWithHeaders"
CurrentSize == IF storageType = "memory" THEN memCurrentSize
               ELSE fcCurrentSize
Items == IF storageType = "memory" THEN memItems ELSE fcItems

\* C1: in both backends the tracked currentSize equals the sum of Size over
\* the entries of the items map, after every completed operation
CurrentSizeIsSumOfSizes ==
    /\ memCurrentSize = SumSize(memItems)
    /\ fcCurrentSize = SumSize(fcItems)

\* a sweep has removed an expired entry and left another one
SweepLeftAnEntry ==
    /\ last.op = "cleanup"
    /\ memCurrentSize < last.sizeBefore
    /\ memCurrentSize > 0

\* C2: in both backends currentSize <= maxSize right after any
\* SetWithHeaders, whatever the payload length
SizeWithinMaxAfterStore ==
    Stores(last.op) => CurrentSize <= maxSize

\* what GetItem(key) returns when it is the next call and its read succeeds
GetItemResult(key) ==
    IF storageType = "memory" THEN Cache_GetItemResult(key)
    ELSE FileCache_GetItemResult(key, TRUE)

\* what Get(key) returns when it is the next call and its read succeeds
GetResult(key) ==
    IF storageType = "memory" THEN Cache_GetResult(key)
    ELSE LET r == FileCache_GetItemResult(key, TRUE)
         IN IF r.found THEN [found |-> TRUE, value |-> r.item.Value]
            ELSE [found |-> FALSE]

Restrict(h) == [n \in (DOMAIN h) \cap AllowList |-> h[n]]

ExpiryRule(k) ==
    /\ now < stored[k].at + stored[k].ttl =>
          /\ GetResult(k) = [found |-> TRUE, value |-> stored[k].value]
          /\ GetItemResult(k).found
          /\ GetItemResult(k).item.Value = stored[k].value
    /\ now >= stored[k].at + stored[k].ttl =>
          /\ ~GetResult(k).found
          /\ ~GetItemResult(k).found

\* C4: memory backend: after a store of k at T with ttl t > 0 and no later
\* store, delete, clear or eviction of k, Get and GetItem return the payload
\* at every now < T + t and absent at every now >= T + t
MemoryExpiryRule ==
    \A k \in Keys :
        (storageType = "memory" /\ stored[k].set /\ stored[k].ttl > 0)
            => ExpiryRule(k)

\* GetItem has just found the entry of an undisturbed store at the very
\* instant T + t and returned absent
MemoryMissAtExpiryInstant ==
    /\ storageType = "memory"
    /\ last.op = "GetItem"
    /\ stored[last.key].set
    /\ stored[last.key].ttl > 0
    /\ now = stored[last.key].at + stored[last.key].ttl
    /\ last.had.found
    /\ ~last.result.found

\* C5: file backend, persistent mode off: after a store of k at T with
\* ttl t > 0 and no later store, delete, clear or eviction of k, Get and
\* GetItem return the payload at every now < T + t and absent at every
\* now >= T + t, the instant T + t included
FileExpiryRule ==
    \A k \in Keys :
        (storageType = "file" /\ ~persistent /\ stored[k].set
            /\ stored[k].ttl > 0)
            => ExpiryRule(k)

\* the keys GetItem would return an entry for, and the entries that are
\* still in the map although their expiry has passed
Resolvable == {d \in DOMAIN Items : GetItemResult(Items[d].Key).found}
Lapsed ==
    {d \in DOMAIN Items :
        IF storageType = "memory" THEN now >= Items[d].ExpiresAt
        ELSE ~persistent /\ Items[d].ExpiresAt # ZeroTime
                /\ now > Items[d].ExpiresAt}

\* C6 as stated: current_size is the sum of Size over the keys GetItem would
\* return; expired entries not yet removed contribute nothing
CurrentSizeCountsResolvableOnly ==
    CurrentSize = SumSize([d \in Resolvable |-> Items[d]])

\* C6 as amended: current_size is the sum of Size over the keys GetItem would
\* return plus the Size of every entry that has expired and has not yet
\* been swept or lazily removed
CurrentSizeCountsLapsedToo ==
    /\ Resolvable \cap Lapsed = {}
    /\ CurrentSize = SumSize([d \in Resolvable |-> Items[d]])
                       + SumSize([d \in Lapsed |-> Items[d]])

\* a store has completed while an expired entry is still in the map, next
\* to an entry GetItem would return
LapsedEntryStillCounted ==
    /\ Stores(last.op)
    /\ Lapsed # {}
    /\ Resolvable # {}
    /\ CurrentSize > SumSize([d \in Resolvable |-> Items[d]])

\* the size the cache would have after the insert, i of the evictions done
RECURSIVE EvictedSize(_, _)
EvictedSize(log, i) ==
    IF i = 0 THEN 0 ELSE log[i].item.Size + EvictedSize(log, i - 1)
SizeWithNew(i) ==
    last.sizeAfterReplace - EvictedSize(last.evicted, i) + Len(last.value)

\* C7: a store evicts only while the new entry does not fit, and the
\* entries it evicts are the least prefix of the eviction order that brings
\* the post-insert size to at most maxSize
EvictionIsLeastPrefixThatFits ==
    (Stores(last.op) /\ Len(last.evicted) > 0) =>
        /\ \A i \in 0..(Len(last.evicted) - 1) : SizeWithNew(i) > maxSize
        /\ SizeWithNew(Len(last.evicted)) <= maxSize

\* C8: memory backend: every entry evictLRU removes has an ExpiresAt at most
\* that of every entry left in the cache at that moment
EvictLRUTakesEarliestExpiry ==
    (storageType = "memory" /\ Stores(last.op)) =>
        \A i \in 1..Len(last.evicted) :
            \A d \in DOMAIN last.evicted[i].rest :
                last.evicted[i].item.ExpiresAt
                    <= last.evicted[i].rest[d].ExpiresAt

\* evictLRU has removed an entry and left one that expires later
EvictLRUChoseAmongTwo ==
    /\ storageType = "memory"
    /\ Stores(last.op)
    /\ Len(last.evicted) > 0
    /\ \E d \in DOMAIN last.evicted[1].rest :
          last.evicted[1].item.ExpiresAt < last.evicted[1].rest[d].ExpiresAt

\* C9: file backend: every entry evictOldest removes has a CreatedAt at most
\* that of every entry left in the index at that moment, its data file is
\* removed and its Size is taken off currentSize
EvictOldestTakesEarliestCreated ==
    (storageType = "file" /\ Stores(last.op)) =>
        /\ \A i \in 1..Len(last.evicted) :
              /\ \A d \in DOMAIN last.evicted[i].rest :
                    last.evicted[i].item.CreatedAt
                        <= last.evicted[i].rest[d].CreatedAt
              /\ last.evicted[i].item.DataFile \notin DOMAIN dataDir
              /\ last.evicted[i].digest \notin DOMAIN fcItems
        /\ last.ok => fcCurrentSize = SizeWithNew(Len(last.evicted))

\* evictOldest has removed the entry created first although the entry it
\* left expires earlier
EvictOldestIgnoredExpiry ==
    /\ storageType = "file"
    /\ Stores(last.op)
    /\ Len(last.evicted) > 0
    /\ \E d \in DOMAIN last.evicted[1].rest :
          /\ last.evicted[1].item.CreatedAt
                < last.evicted[1].rest[d].CreatedAt
          /\ last.evicted[1].item.ExpiresAt
                > last.evicted[1].rest[d].ExpiresAt
          /\ last.evicted[1].rest[d].ExpiresAt # ZeroTime

\* GetItem has just found an entry whose non-zero ExpiresAt had passed
FoundLapsed ==
    /\ last.op = "GetItem"
    /\ last.had.found
    /\ last.had.item.ExpiresAt # ZeroTime
    /\ last.at > last.had.item.ExpiresAt

\* what lazy expiration leaves behind
LazilyRemoved ==
    /\ ~last.result.found
    /\ generateHash(last.key) \notin DOMAIN Items
    /\ CurrentSize = last.sizeBefore - last.had.item.Size
    /\ storageType = "file" =>
          /\ last.had.item.DataFile \notin DOMAIN dataDir
          /\ indexFile = saveIndex(fcItems)

\* C10 as stated: in both backends, whenever GetItem finds an entry whose
\* non-zero ExpiresAt has passed, it returns absent, the entry is out of the
\* items map and currentSize is lower by its Size (file backend: the data
\* file is removed and the index rewritten)
LazyExpirationInBothBackends ==
    FoundLapsed => LazilyRemoved

\* C10 as amended: the same, in the memory backend and in the file backend
\* with persistent mode off
LazyExpirationUnlessPersistent ==
    (FoundLapsed /\ (storageType = "memory" \/ ~persistent))
        => LazilyRemoved

\* the file backend, persistent mode off, has just removed an expired entry
\* on a read
FileLazyExpirationHappened ==
    /\ FoundLapsed
    /\ storageType = "file"
    /\ ~persistent
    /\ last.ok
    /\ fcCurrentSize < last.sizeBefore

\* the state a Delete can change: both items maps and counters, the data
\* directory and the index on disk
DeleteFootprint == <<memItems, memCurrentSize, fcItems, fcCurrentSize,
                     dataDir, indexFile>>

\* C11: in both backends a Delete of a key that has no entry leaves the
\* items map, its count and currentSize as they were (file backend: the data
\* directory and the index on disk too), and a Delete that follows a Delete
\* of the same key changes nothing
DeleteOfAbsentKeyIsNoOp ==
    [][ /\ (last'.op = "Delete" /\ ~last'.had.found)
              => UNCHANGED DeleteFootprint
        /\ (last.op = "Delete" /\ last'.op = "Delete"
               /\ last'.key = last.key)
              => UNCHANGED DeleteFootprint ]_vars

\* the file backend has just been asked to delete a key it has no entry
\* for, while it holds an entry for another key
DeleteMissedInFileBackend ==
    /\ storageType = "file"
    /\ last.op = "Delete"
    /\ ~last.had.found
    /\ fcItems # EmptyMap
    /\ fcCurrentSize = last.sizeBefore

\* C12: in both backends, right after Clear the items map is empty,
\* currentSize is 0 and Get and GetItem return absent for every key; in the
\* file backend no data file remains and the index on disk is the empty
\* mapping
ClearEmptiesTheCache ==
    last.op = "Clear" =>
        /\ Cardinality(DOMAIN Items) = 0
        /\ CurrentSize = 0
        /\ \A k \in Keys : ~GetResult(k).found /\ ~GetItemResult(k).found
        /\ storageType = "file" =>
              /\ DOMAIN dataDir = {}
              /\ indexFile.exists
              /\ DOMAIN Unmarshal(indexFile.data) = {}

\* the file backend has just cleared a cache that held entries
FileCacheClearedEntries ==
    /\ storageType = "file"
    /\ last.op = "Clear"
    /\ last.sizeBefore > 0
    /\ fcCurrentSize = 0

\* the payload the backend holds for digest h after the step
HeldValue(h) ==
    IF storageType = "memory" THEN memItems[h].Value
    ELSE dataDir[fcItems[h].DataFile]

\* C13: in both backends a completed SetWithHeaders on a key that already
\* has an entry leaves exactly one entry for the key, holding the new
\* payload, headers, status and expiry; the Size of the old entry is taken
\* off before the eviction check, nothing is evicted when the new payload
\* fits once the old one is gone, currentSize counts the new payload only
\* and the number of entries does not grow
OverwriteReplacesTheEntry ==
    [][ \A k \in Keys :
        (Stores(last'.op) /\ last'.key = k /\ last'.had.found /\ last'.ok) =>
          LET h == generateHash(k) IN
          /\ h \in DOMAIN Items'
          /\ \A d \in DOMAIN Items' : Items'[d].Key = k => d = h
          /\ HeldValue(h)' = last'.value
          /\ Items'[h].Headers = last'.headers
          /\ Items'[h].StatusCode = last'.status
          /\ Items'[h].Size = Len(last'.value)
          /\ Items'[h].ExpiresAt =
                (IF storageType = "memory" THEN Cache_expiresAt(last'.ttl)
                 ELSE FileCache_expiresAt(last'.ttl))
          /\ last'.sizeAfterReplace = CurrentSize - Items[h].Size
          /\ Len(last'.evicted) > 0 =>
                last'.sizeAfterReplace + Len(last'.value) > maxSize
          /\ CurrentSize' = SumSize(Items')
          /\ CurrentSize' = SumSize(Remove(Items', h)) + Len(last'.value)
          /\ Cardinality(DOMAIN Items') <= Cardinality(DOMAIN Items) ]_vars

\* the memory backend has just replaced an entry by a payload that fits
\* only because the old payload was taken off first, next to another entry
\* that stayed
OverwroteWithoutEvicting ==
    /\ storageType = "memory"
    /\ Stores(last.op)
    /\ last.had.found
    /\ last.sizeBefore + Len(last.value) > maxSize
    /\ Len(last.evicted) = 0
    /\ Cardinality(DOMAIN memItems) = 2

\* C14: a file backend in persistent mode is stopped and a new persistent
\* instance is built on the same directory: for every key, GetItem on the
\* new instance returns what GetItem returned before the reconstruction
\* (key, payload, headers, status, expiry and size), and absent for a key
\* that was absent
PersistentReloadKeepsEntries ==
    [][ (last'.op = "NewFileCache" /\ last.op = "Stop"
           /\ persistent /\ persistent') =>
          \A k \in Keys :
              FileCache_GetItemResult(k, TRUE)'
                  = FileCache_GetItemResult(k, TRUE) ]_vars

\* a persistent instance has just been rebuilt after Stop, once the clock
\* has moved on, and serves an entry from the directory
PersistentReloadServedEntry ==
    /\ last.op = "NewFileCache"
    /\ last.prev = "Stop"
    /\ last.wasPersistent
    /\ persistent
    /\ now > 1
    /\ \E k \in Keys : FileCache_GetItemResult(k, TRUE).found

\* C15: file backend in persistent mode: an entry stored with any ttl has
\* the zero ExpiresAt, and GetItem returns it at every later time, as long
\* as the key is not stored again, deleted, cleared or evicted and its data
\* file can be read
PersistentEntriesNeverExpire ==
    (storageType = "file" /\ persistent) =>
        \A k \in Keys : stored[k].set =>
            LET r == FileCache_GetItemResult(k, TRUE) IN
            /\ r.found
            /\ r.item.Value = stored[k].value
            /\ r.item.ExpiresAt = ZeroTime
            /\ fcItems[generateHash(k)].ExpiresAt = ZeroTime

\* in persistent mode GetItem has just returned an entry stored with a
\* ttl > 0 that ran out before the call
PersistentHitAfterTTL ==
    /\ storageType = "file"
    /\ persistent
    /\ last.op = "GetItem"
    /\ last.result.found
    /\ stored[last.key].set
    /\ stored[last.key].ttl > 0
    /\ now > stored[last.key].at + stored[last.key].ttl
    /\ generateHash(last.key) \in DOMAIN fcItems

\* C16: in the memory backend and in the file backend with persistent mode
\* off, a store with ttl == 0 at time T leaves an entry whose ExpiresAt is
\* T + the default TTL, the default being derived from the configured
\* default_ttl by the same rule in both backends (300 when the configured
\* value is <= 0)
DefaultTTLSameInBothBackends ==
    (Stores(last.op) /\ last.ok /\ last.ttl = 0
        /\ (storageType = "memory" \/ ~persistent)) =>
        Items[generateHash(last.key)].ExpiresAt
            = last.at + DefaultTTLRule(cfgDefaultTTL)

\* C17: file backend: a SetWithHeaders whose data-file write fails returns
\* with the items map, currentSize and the index on disk as they were
\* before the call, the previous entry of the key and the other entries
\* included
FailedWriteLeavesCacheAsItWas ==
    [][ (storageType = "file" /\ Stores(last'.op) /\ ~last'.ok) =>
          UNCHANGED <<fcItems, fcCurrentSize, indexFile>> ]_vars

\* C18: file backend: when Stop returns, the index on disk decodes to the
\* in-memory items map, and Stop has removed no entry and no data file and
\* left currentSize as it was
StopSavesIndexAndKeepsData ==
    [][ (storageType = "file" /\ last'.op = "Stop") =>
          /\ indexFile'.exists
          /\ Unmarshal(indexFile'.data) = fcItems'
          /\ UNCHANGED <<fcItems, dataDir, fcCurrentSize>> ]_vars

\* Stop has just rewritten an index file that a failed write had left
\* different from the items map
StopRefreshedStaleIndex ==
    /\ storageType = "file"
    /\ last.op = "Stop"
    /\ last.staleIndex
    /\ faults > 0
    /\ indexFile = saveIndex(fcItems)

\* C19: memory backend: once Stop has returned, the sweep goroutine has
\* exited, so no cleanup pass starts or changes the cache afterwards
StopWaitsForSweepToExit ==
    stopChan = "closed" => pc[Sweeper] = "done"

\* what a call leaves behind and returns when it runs alone, from the map
\* and the counter it found when it took the lock
Outcome(items, size, result) ==
    [items |-> items, size |-> size, result |-> result]

Serial_SetWithHeaders(f) ==
    LET h == generateHash(f.key)
        items1 == Remove(f.snapItems, h)
        cur1 == IF h \in DOMAIN f.snapItems
                THEN f.snapSize - f.snapItems[h].Size ELSE f.snapSize
    IN { Outcome(Put(out.items, h, Cache_newItem(f, f.at)),
                 out.currentSize + Len(f.value), NoItem)
         : out \in Cache_evictLoop(items1, cur1, Len(f.value), <<>>) }

Serial_Get(f) ==
    LET h == generateHash(f.key) IN
    IF h \in DOMAIN f.snapItems /\ Cache_beforeExpiry(f.snapItems[h], f.at)
    THEN {Outcome(f.snapItems, f.snapSize,
                  Some([Value |-> f.snapItems[h].Value]))}
    ELSE {Outcome(f.snapItems, f.snapSize, NoItem)}

Serial_GetItem(f) ==
    LET h == generateHash(f.key) IN
    IF h \notin DOMAIN f.snapItems
    THEN {Outcome(f.snapItems, f.snapSize, NoItem)}
    ELSE IF Cache_beforeExpiry(f.snapItems[h], f.at)
    THEN {Outcome(f.snapItems, f.snapSize, Some(f.snapItems[h]))}
    ELSE {Outcome(Remove(f.snapItems, h),
                  f.snapSize - f.snapItems[h].Size, NoItem)}

Serial_Delete(f) ==
    LET h == generateHash(f.key) IN
    IF h \in DOMAIN f.snapItems
    THEN {Outcome(Remove(f.snapItems, h),
                  f.snapSize - f.snapItems[h].Size, NoItem)}
    ELSE {Outcome(f.snapItems, f.snapSize, NoItem)}

Serial_Clear(f) == {Outcome(EmptyMap, 0, NoItem)}

Serial_Stats(f) == {Outcome(f.snapItems, f.snapSize, NoItem)}

Serial_cleanup(f) ==
    LET dead == {d \in DOMAIN f.snapItems :
                    Cache_sweepable(f.snapItems[d], f.at)}
    IN {Outcome([d \in (DOMAIN f.snapItems) \ dead |-> f.snapItems[d]],
                f.snapSize - SumSize([d \in dead |-> f.snapItems[d]]),
                NoItem)}

Serial(f) ==
    CASE f.op = "SetWithHeaders" -> Serial_SetWithHeaders(f)
      [] f.op = "Get" -> Serial_Get(f)
      [] f.op = "GetItem" -> Serial_GetItem(f)
      [] f.op = "Delete" -> Serial_Delete(f)
      [] f.op = "Clear" -> Serial_Clear(f)
      [] f.op = "Stats" -> Serial_Stats(f)
      [] f.op = "cleanup" -> Serial_cleanup(f)

\* the call of p has run its body and is about to release the lock
AboutToReturn(p) ==
    \/ pc[p] \in {"Set_unlock", "Get_runlock", "GetItem_unlock",
                  "Delete_unlock", "Clear_unlock", "Stats_runlock"}
    \/ /\ pc[p] = "cleanup_loop"
       /\ \A d \in DOMAIN memItems :
             ~Cache_sweepable(memItems[d], frame[p].at)

InCall(p) == pc[p] \notin {"idle", "select", "cleanup", "done", "panicked"}
Reads(p) == frame[p].op \in {"Get", "Stats"}

\* C20: memory backend: every call that may change the cache runs from its
\* first to its last statement with the exclusive lock held and nobody else
\* inside a call, Get and Stats run with the shared lock held next to
\* readers only; every call, the sweep included, leaves the map and the
\* counter and returns the result it would have if it ran alone from the
\* state it found, so the calls are equivalent to the serial order in which
\* they took the lock; and whoever can look at the cache sees currentSize
\* equal to the sum of the sizes in the map
MemoryCallsAreSerial ==
    /\ \A p \in Procs : InCall(p) =>
          IF Reads(p) THEN p \in mutex.r /\ mutex.w = NoProc
          ELSE /\ mutex.w = p
               /\ \A q \in Procs \ {p} : ~InCall(q)
    /\ \A p \in Procs : AboutToReturn(p) =>
          Outcome(memItems, memCurrentSize, frame[p].result)
              \in Serial(frame[p])
    /\ \A p \in Procs : pc[p] = "Stats_runlock" =>
          /\ frame[p].count = Cardinality(DOMAIN frame[p].snapItems)
          /\ frame[p].size = frame[p].sum
    /\ mutex.w = NoProc => memCurrentSize = SumSize(memItems)

\* a store has put its entry into the map and not yet counted it, while
\* the sweep goroutine is waiting for the lock and another thread has not
\* started its call
StoreHalfDoneUnderLock ==
    /\ \E p \in Threads :
          /\ pc[p] = "Set_size"
          /\ mutex.w = p
    /\ memCurrentSize # SumSize(memItems)
    /\ pc[Sweeper] = "cleanup"

\* C21: file backend, several threads: whatever SetWithHeaders, Delete or
\* Clear calls run next to it, the item a GetItem(k) returns is the item of
\* one store of k that has returned, the one whose record the lookup
\* found: headers, status, expiry and Size are those of the record, the
\* payload is the payload of that store, and Size is its length
FileGetItemReturnsOneStore ==
    \A p \in Threads :
        (pc[p] = "FGetItem_return" /\ frame[p].result.found) =>
            LET r == frame[p].result.item IN
            /\ frame[p].store.set
            /\ r.Key = frame[p].key
            /\ r = FileCache_CacheItem(frame[p].had.item,
                                       frame[p].store.value)
            /\ r.Size = Len(r.Value)

\* the entry under digest d has outlived its ExpiresAt
ExpiredInMap(d) ==
    d \in DOMAIN memItems /\ now > memItems[d].ExpiresAt

\* no expired entry is left under digest d, and the counter is the sum of
\* the sizes of the entries that are left
SweptAway(d) ==
    /\ ~ExpiredInMap(d)
    /\ mutex.w = NoProc
    /\ memCurrentSize = SumSize(memItems)

\* C22: memory backend, fair scheduling of the lock and the ticker: an
\* entry whose ExpiresAt has passed is removed from the map in the end and
\* its Size subtracted, whatever stores and reads the threads go on
\* making and even if nobody reads its key again, unless Stop is called
ExpiredEntryIsSweptInTheEnd ==
    \A k \in Keys2 :
        ExpiredInMap(generateHash(k))
            ~> (SweptAway(generateHash(k)) \/ stopChan = "closed")

\* the sweep goroutine holds the lock and has removed every entry it found
\* when it took the lock; no thread is inside a call and nobody has called
\* Stop
SweepEmptiedTheMap ==
    /\ pc[Sweeper] = "cleanup_loop"
    /\ frame[Sweeper].snapItems # EmptyMap
    /\ memItems = EmptyMap
    /\ memCurrentSize = 0
    /\ stopChan = "open"
    /\ \A p \in Threads : pc[p] = "idle"

UpperCase(c) ==
    CASE c = "k" -> "K" [] c = "m" -> "M" [] c = "g" -> "G" [] c = "b" -> "B"
      [] OTHER -> c

\* s is a non-empty string of decimal digits
IsDecimal(s) == s # <<>> /\ \A i \in DOMAIN s : IsDigit(s[i])

\* the unit a size string ends with, in any letter case: the power of 1024
\* it stands for, 0 when the string ends with no unit
UnitOf(s) ==
    IF Len(s) < 2 THEN 0
    ELSE LET u == <<UpperCase(s[Len(s) - 1]), UpperCase(s[Len(s)])>> IN
         CASE u = <<"K", "B">> -> 1
           [] u = <<"M", "B">> -> 2
           [] u = <<"G", "B">> -> 3
           [] OTHER -> 0

\* the part of a size string before its unit
NumericPortion(s) ==
    IF UnitOf(s) = 0 THEN s ELSE SubSeq(s, 1, Len(s) - 2)

\* C25: for a number n written in decimal digits, parseSize returns n for
\* the bare number and n * 1024, n * 1024^2, n * 1024^3 for the number
\* followed by KB, MB, GB, in whatever letter case the unit is spelled
ParseSizeTakesUnitsInAnyCase ==
    (last.op = "NewCacheStorage" /\ last.parsed.called
        /\ IsDecimal(NumericPortion(last.cfg.MaxSize))) =>
        /\ ~last.parsed.err
        /\ last.parsed.size = Bytes(ParseInt(NumericPortion(last.cfg.MaxSize)),
                                    UnitOf(last.cfg.MaxSize))

\* C26: parseSize returns an error for the empty string and for every
\* string whose part before the unit is not a decimal integer, digits
\* followed by other characters included
ParseSizeRejectsMalformed ==
    (last.op = "NewCacheStorage" /\ last.parsed.called
        /\ LET num == NumericPortion(last.cfg.MaxSize) IN
           ~(IsDecimal(num)
             \/ (num # <<>> /\ Head(num) \in {"+", "-"}
                 /\ IsDecimal(Tail(num))))) =>
        last.parsed.err

\* the index file holds exactly the items map; a directory without an
\* index file counts as holding the empty map
IndexHoldsItems ==
    IF indexFile.exists THEN Unmarshal(indexFile.data) = fcItems
    ELSE fcItems = EmptyMap

\* C27: file backend, index writes succeeding: after every call that
\* changed the items map (a store with the evictions it made, Delete,
\* Clear, the removal by GetItem of an expired or unreadable entry) and
\* after construction, the index file on disk holds exactly the items map
IndexTracksEveryMutation ==
    [][ (storageType = "file"
           /\ (fcItems' # fcItems \/ last'.op = "NewFileCache")) =>
          IndexHoldsItems' ]_vars

\* C28: file backend: when NewFileCache returns, the items map holds
\* exactly the records of the index file whose data file exists and which
\* are not expired, expiry being tested only when persistent is false; the
\* data file of every expired record is gone; currentSize is the sum of
\* the sizes of the records kept; without an index file the cache is
\* empty and currentSize is 0
StartupReconcilesIndexWithFiles ==
    [][ (storageType = "file" /\ last'.op = "NewFileCache") =>
          LET idx == IF indexFile.exists THEN Unmarshal(indexFile.data)
                     ELSE EmptyMap
              hasFile(d) == idx[d].DataFile \in DOMAIN dataDir
              expired(d) == /\ ~persistent'
                            /\ idx[d].ExpiresAt # ZeroTime
                            /\ now > idx[d].ExpiresAt
              kept == {d \in DOMAIN idx : hasFile(d) /\ ~expired(d)}
          IN /\ fcItems' = [d \in kept |-> idx[d]]
             /\ fcCurrentSize' = SumSize([d \in kept |-> idx[d]])
             /\ \A d \in DOMAIN idx :
                   expired(d) => idx[d].DataFile \notin DOMAIN dataDir'
             /\ \A d \in kept :
                   /\ idx[d].DataFile \in DOMAIN dataDir'
                   /\ dataDir'[idx[d].DataFile] = dataDir[idx[d].DataFile]
             /\ ~indexFile.exists =>
                   fcItems' = EmptyMap /\ fcCurrentSize' = 0 ]_vars

\* the process was started again with persistent mode off on an index of
\* two records: it kept one and dropped the other, which had expired, with
\* its data file
StartupKeptOneDroppedOne ==
    /\ storageType = "file"
    /\ last.op = "NewFileCache"
    /\ ~persistent
    /\ indexFile.exists
    /\ Cardinality(indexFile.data) = 2
    /\ Cardinality(DOMAIN fcItems) = 1
    /\ Cardinality(DOMAIN dataDir) = 1
    /\ fcCurrentSize = SumSize(fcItems)

\* C29: file backend, no I/O failure so far: after every call the data
\* directory holds exactly one file per entry of the items map, named
\* from the digest of the entry and holding the payload of the last store
\* of its key, and no other file
DataFilesMirrorEntries ==
    (storageType = "file" /\ faults = 0) =>
        /\ DOMAIN dataDir = {DataFileName(d) : d \in DOMAIN fcItems}
        /\ \A d \in DOMAIN fcItems :
              /\ fcItems[d].DataFile = DataFileName(d)
              /\ d = generateHash(fcItems[d].Key)
              /\ Len(dataDir[DataFileName(d)]) = fcItems[d].Size
              /\ stored[fcItems[d].Key].set =>
                    dataDir[DataFileName(d)] = stored[fcItems[d].Key].value

\* no I/O failure so far: a store of two bytes has evicted the entry of
\* the other key, and the data directory holds the file of the new entry
\* only
EvictionRemovedTheDataFile ==
    /\ storageType = "file" /\ faults = 0
    /\ Stores(last.op) /\ last.ok
    /\ Len(last.evicted) = 1
    /\ DOMAIN dataDir = {DataFileName(generateHash(last.key))}
    /\ dataDir[DataFileName(generateHash(last.key))] = last.value

\* C30: once the admin request DELETE /api/v1/cache/d has been served, no
\* response the proxy cached for domain d, under the keys generateCacheKey
\* makes for d, is left in the cache
AdminDeleteRemovesDomainEntries ==
    (last.op = "Delete" /\ last.key \in Domains) =>
        \A req \in Requests :
            req.domain = last.key =>
                generateHash(generateCacheKey(req, req.domain))
                    \notin DOMAIN Items

\* C31: Stop completes without a fault on either backend, and so does a
\* second Stop on the same instance, which leaves the entries and
\* currentSize as they are: no thread that calls Stop panics
StopIsIdempotent ==
    \A p \in Threads : pc[p] # "panicked"

\* C32: one pass of the memory backend's cleanup at time now removes every
\* entry with ExpiresAt before now, lowers currentSize by exactly the sum
\* of their Sizes, and leaves every entry with ExpiresAt >= now as it was:
\* payload, headers, status, expiry and Size
SweepIsExact ==
    [][last'.op = "cleanup" =>
         LET dead == {d \in DOMAIN memItems : memItems[d].ExpiresAt < now}
             kept == {d \in DOMAIN memItems : memItems[d].ExpiresAt >= now}
         IN /\ DOMAIN memItems' = kept
            /\ \A d \in kept : memItems'[d] = memItems[d]
            /\ memCurrentSize' = memCurrentSize
                   - SumSize([d \in dead |-> memItems[d]])]_vars

\* a pass has removed an entry and kept one that expires at this instant
SweepKeptEntryAtItsExpiry ==
    /\ last.op = "cleanup"
    /\ memCurrentSize < last.sizeBefore
    /\ \E d \in DOMAIN memItems : memItems[d].ExpiresAt = now

\* C33: memory backend: Get changes neither the items map nor
\* currentSize, for any key in any state; on an entry that has expired but
\* is still stored it returns absent and the entry stays in the map and in
\* currentSize, while GetItem in the same state removes it; on an entry
\* that has not expired Get returns the payload GetItem would return
GetHasNoSideEffect ==
    [][storageType = "memory" =>
         LET h == generateHash(last'.key)
             expired == h \in DOMAIN memItems /\ ~(now < memItems[h].ExpiresAt)
             valid == h \in DOMAIN memItems /\ now < memItems[h].ExpiresAt
         IN /\ last'.op = "Get" =>
                 /\ memItems' = memItems
                 /\ memCurrentSize' = memCurrentSize
                 /\ expired => /\ ~last'.result.found
                               /\ h \in DOMAIN memItems'
                               /\ memCurrentSize' = SumSize(memItems')
                 /\ valid => /\ last'.result.found
                             /\ last'.result.item.Value
                                    = Cache_GetItemResult(last'.key).item.Value
                 /\ h \notin DOMAIN memItems => ~last'.result.found
            /\ last'.op = "GetItem" =>
                 /\ expired => /\ ~last'.result.found
                               /\ memItems' = Remove(memItems, h)
                               /\ memCurrentSize'
                                      = memCurrentSize - memItems[h].Size
                 /\ valid => /\ last'.result = Some(memItems[h])
                             /\ memItems' = memItems]_vars

\* Get has just missed on an entry that expired and is still in the map
GetMissedOnStoredEntry ==
    /\ storageType = "memory"
    /\ last.op = "Get"
    /\ ~last.result.found
    /\ generateHash(last.key) \in DOMAIN memItems
    /\ memItems[generateHash(last.key)].ExpiresAt <= now
    /\ memCurrentSize = last.sizeBefore
    /\ memCurrentSize > 0

\* C34: file backend: when GetItem(k) finds a record for k that has not
\* expired and the read of its data file fails, GetItem returns absent and
\* on return the record of k is out of the items map, its Size is out of
\* currentSize, the index file holds the new map and the entries of the
\* other keys are as they were; the caller sees a miss and nothing else
ReadFailureIsAMiss ==
    [][ (storageType = "file" /\ last'.op = "GetItem") =>
          LET h == generateHash(last'.key)
              unreadable ==
                  /\ h \in DOMAIN fcItems
                  /\ ~(~persistent /\ fcItems[h].ExpiresAt # ZeroTime
                         /\ now > fcItems[h].ExpiresAt)
                  /\ (~last'.ok \/ fcItems[h].DataFile \notin DOMAIN dataDir)
          IN unreadable =>
               /\ last'.result = NoItem
               /\ DOMAIN fcItems' = (DOMAIN fcItems) \ {h}
               /\ \A d \in DOMAIN fcItems' : fcItems'[d] = fcItems[d]
               /\ fcCurrentSize' = fcCurrentSize - fcItems[h].Size
               /\ indexFile'.exists
               /\ Unmarshal(indexFile'.data) = fcItems' ]_vars

\* the read of a data file has failed under GetItem, which dropped the
\* record and left the entry of another key in place
ReadFailureDroppedTheRecord ==
    /\ storageType = "file"
    /\ last.op = "GetItem"
    /\ ~last.ok
    /\ last.had.found
    /\ ~last.result.found
    /\ generateHash(last.key) \notin DOMAIN fcItems
    /\ fcItems # EmptyMap
    /\ fcCurrentSize = last.sizeBefore - last.had.item.Size

\* C35: memory backend: after SetWithHeaders(k, buf, ...) has returned,
\* whatever the caller writes to buf afterwards, the payload stored for k
\* and the payload Get(k) or GetItem(k) returns are the contents buf had
\* when the call was made
StoredPayloadIsACopy ==
    /\ \A k \in Keys2 :
          (stored[k].set /\ generateHash(k) \in DOMAIN memItems) =>
              memItems[generateHash(k)].Value = stored[k].value
    /\ (last.op \in {"Get", "GetItem"} /\ last.result.found
          /\ stored[last.key].set) =>
              last.result.item.Value = stored[last.key].value

\* a caller has written to the slice it stored under k, and a Get of k
\* made afterwards returned the bytes the slice had at the time of the store
CallerWroteToItsSliceAfterStore ==
    \E p \in Threads :
        LET k == callerBuf[p].key IN
        /\ k \in Keys2
        /\ stored[k].set
        /\ Len(callerBuf[p].data) = Len(stored[k].value)
        /\ callerBuf[p].data # stored[k].value
        /\ last.op = "Get"
        /\ last.key = k
        /\ last.result.found
        /\ last.result.item.Value = stored[k].value

\* the entries of items stored under keys other than k
OtherKeys(items, k) == {d \in DOMAIN items : items[d].Key # k}

\* the bytes items counts for key k
KeySize(items, k) ==
    SumSize([d \in {x \in DOMAIN items : items[x].Key = k} |-> items[d]])

\* C36: both backends: equal keys address one slot and different keys
\* different slots, so Delete(k), GetItem(k) and a SetWithHeaders(k, ...)
\* that evicts nothing leave the entry of every other key as it was
\* (presence, payload, headers, status, expiry, Size) and change
\* currentSize by the Size removed or added for k only
KeysAreIsolated ==
    [][ (last'.op \in {"Delete", "GetItem", "SetWithHeaders"}
           /\ last'.evicted = <<>>) =>
          LET k == last'.key IN
          /\ OtherKeys(Items', k) = OtherKeys(Items, k)
          /\ \A d \in OtherKeys(Items, k) :
                /\ Items'[d] = Items[d]
                /\ storageType = "file" =>
                      /\ Items[d].DataFile \in DOMAIN dataDir
                      /\ Items[d].DataFile \in DOMAIN dataDir'
                      /\ dataDir'[Items[d].DataFile]
                             = dataDir[Items[d].DataFile]
          /\ Cardinality({d \in DOMAIN Items' : Items'[d].Key = k}) <= 1
          /\ CurrentSize' - CurrentSize
                 = KeySize(Items', k) - KeySize(Items, k) ]_vars

\* a store has replaced the entry of its key next to the entry of another
\* key, and nothing was evicted
StoreReplacedNextToAnotherKey ==
    /\ last.op = "SetWithHeaders"
    /\ last.evicted = <<>>
    /\ last.had.found
    /\ generateHash(last.key) \in DOMAIN Items
    /\ OtherKeys(Items, last.key) # {}

\* C37: file backend, several threads: when GetItem(k) removes the entry
\* of k because it found it expired or could not read its data file, the
\* record it removes is the record its lookup found; an entry a
\* SetWithHeaders(k, ...) put there after the lookup is never removed by
\* that GetItem
LazyRemovalTakesInspectedEntry ==
    \A p \in Threads :
        (frame[p].op = "GetItem" /\ pc[p] = "FDelete_unlock"
           /\ frame[p].removed.found) =>
            frame[p].removed.item = frame[p].had.item

\* C38: memory backend: whenever a SetWithHeaders evicts an entry whose
\* ExpiresAt is still ahead of the time of the call, none of the entries
\* left in the map at that moment has an ExpiresAt that has passed: no
\* entry that is still valid is evicted while an expired one is stored
ExpiredAreEvictedFirst ==
    (storageType = "memory" /\ last.op = "SetWithHeaders") =>
        \A i \in 1..Len(last.evicted) :
            last.evicted[i].item.ExpiresAt > last.at =>
                \A d \in DOMAIN last.evicted[i].rest :
                    ~(last.evicted[i].rest[d].ExpiresAt <= last.at)

\* a store made after the clock has moved has evicted an entry that was
\* still valid, and the entry that stayed was valid too
EvictedValidNextToValid ==
    /\ storageType = "memory"
    /\ last.op = "SetWithHeaders"
    /\ last.at > 1
    /\ Len(last.evicted) = 1
    /\ last.evicted[1].item.ExpiresAt > last.at
    /\ last.evicted[1].rest # EmptyMap
    /\ \A d \in DOMAIN last.evicted[1].rest :
          last.evicted[1].rest[d].ExpiresAt > last.at

\* C39: memory backend: a store is never turned down for its size: when
\* SetWithHeaders(k, p, ...) has returned the map holds an entry for k
\* with payload p and Size len(p), whatever len(p) and maxSize are; when
\* len(p) > maxSize every other entry was evicted first and the entry of
\* k is the only one left
StoreIsNeverRejectedForSize ==
    (storageType = "memory" /\ last.op = "SetWithHeaders") =>
        LET h == generateHash(last.key) IN
        /\ h \in DOMAIN memItems
        /\ memItems[h].Key = last.key
        /\ memItems[h].Value = last.value
        /\ memItems[h].Size = Len(last.value)
        /\ Len(last.value) > maxSize => DOMAIN memItems = {h}

\* a payload longer than maxSize has been stored, and the entry of
\* another key was evicted for it
OversizedStoreEvictedTheRest ==
    /\ storageType = "memory"
    /\ last.op = "SetWithHeaders"
    /\ Len(last.value) > maxSize
    /\ Len(last.evicted) > 0
    /\ DOMAIN memItems = {generateHash(last.key)}
    /\ memCurrentSize = Len(last.value)

\* thread p is in the eviction loop of a store
InEvictionLoop(p) ==
    pc[p] \in {"Set_evict", "Set_evictLRU", "FSet_evict", "FSet_evictOldest"}

\* thread p has left the eviction loop
PastEvictionLoop(p) == pc[p] \in {"Set_insert", "FSet_create"}

\* C40: both backends, entries keyed by digests: every turn of the
\* eviction loop of SetWithHeaders removes exactly one entry and lowers
\* currentSize by its Size; the loop makes at most as many turns as the
\* map had entries; it is left with the new entry fitting or the map
\* empty; and a store that is in the loop gets out of it
EvictionLoopTerminates ==
    /\ [][\A p \in Threads :
            (pc[p] \in {"Set_evictLRU", "FSet_evictOldest"}
               /\ pc'[p] # pc[p]) =>
                \E d \in DOMAIN Items :
                    /\ Items' = Remove(Items, d)
                    /\ CurrentSize' = CurrentSize - Items[d].Size]_vars
    /\ [](\A p \in Threads :
            /\ (InEvictionLoop(p) \/ PastEvictionLoop(p)) =>
                  (frame[p].itemsAtLoop # -1 =>
                       frame[p].iter <= frame[p].itemsAtLoop)
            /\ PastEvictionLoop(p) =>
                  \/ CurrentSize + Len(frame[p].value) <= maxSize
                  \/ Items = EmptyMap)
    /\ \A p \in Threads : InEvictionLoop(p) ~> PastEvictionLoop(p)

\* a store has left the loop after two turns that emptied the map
LoopEndedAfterTwoEvictions ==
    \E p \in Threads :
        /\ PastEvictionLoop(p)
        /\ frame[p].iter = 2
        /\ frame[p].itemsAtLoop = 2
        /\ Items = EmptyMap
====
